---- MODULE Spec2Model ----
(***************************************************************************)
(* A model of the apitrace reader of coriscodepage/replay: the framed      *)
(* Snappy byte source (src/src/file.rs), the primitive decoders, the       *)
(* signature dictionaries, the value decoder and the call assembler        *)
(* (src/src/parser.rs), the call-flag classifier (src/src/trace.rs), the   *)
(* retracer (src/src/retracer.rs) and the region map (src/src/region.rs).   *)
(*                                                                         *)
(* Bytes are naturals 0..255, strings are sequences of bytes, Option<T>    *)
(* is a sequence of length 0 (None) or 1 (Some).  Every reader function is *)
(* an operator from the reader state `self` to a record                    *)
(* [self, err, val]: the state it leaves, "Ok" or the error kind it        *)
(* returns ("Panic" when the code panics), and the value on success.  A    *)
(* function that makes several calls is split at each call: the operator   *)
(* that follows a call takes the call's result as a parameter.             *)
(***************************************************************************)
EXTENDS Integers, Sequences, FiniteSets, TLC

VARIABLES
    snappy_file,   \* the file on disk: [magic, chunks]
    file_idx,      \* SnappyFile.snappy_file cursor: number of chunks read
    cache,         \* SnappyFile.cache
    cache_cap,     \* capacity of SnappyFile.cache
    cache_pos,     \* SnappyFile.cache_pos
    chunk_offset,  \* SnappyFile.chunk_offset
    version,       \* Parser.version
    api,           \* Parser.api
    properties,    \* Parser.properties
    call_number,   \* Parser.call_number
    call_list,     \* Parser.call_list
    functions,     \* Parser.functions
    enums,         \* Parser.enums
    structs,       \* Parser.structs
    bitmasks,      \* Parser.bitmasks
    pc,            \* where the caller is: "start", "opened", "ready", "failed", "aborted"
    result,        \* what the last operation returned to the caller
    consumed,      \* history: number of bytes the cursor has passed
    log,           \* history: the ENTER / LEAVE events read so far
    emitted,       \* history: the calls parse_call has returned so far
    retracer,      \* the Retracer: [map, callbacks]
    REGION_MAP     \* the RefCell of the region map: [borrowed, map]

vars == <<snappy_file, file_idx, cache, cache_cap, cache_pos, chunk_offset,
          version, api, properties, call_number, call_list, functions, enums,
          structs, bitmasks, pc, result, consumed, log, emitted,
          retracer, REGION_MAP>>

-----------------------------------------------------------------------------
(* Generic helpers *)

Min(a, b) == IF a < b THEN a ELSE b

Max(a, b) == IF a > b THEN a ELSE b

None == <<>>

Some(v) == <<v>>

IsSome(o) == Len(o) = 1

Unwrap(o) == o[1]

UnwrapOr(o, d) == IF Len(o) = 1 THEN o[1] ELSE d

Ok(s, v) == [self |-> s, err |-> "Ok", val |-> v]

Err(s, e) == [self |-> s, err |-> e, val |-> <<>>]

Repeat(v, n) == [i \in 1..n |-> v]

RECURSIVE BitOr(_, _)
BitOr(a, b) ==
    IF a = 0 THEN b
    ELSE IF b = 0 THEN a
    ELSE Max(a % 2, b % 2) + 2 * BitOr(a \div 2, b \div 2)

\* x << shift on a 64-bit usize, for x < 128
ShiftLeft(x, shift) ==
    IF x = 0 THEN 0
    ELSE IF shift + 7 <= 64 THEN x * (2 ^ shift)
    ELSE (x % (2 ^ (64 - shift))) * (2 ^ shift)

\* v as u16
AsU16(v) == v % 65536

\* v as u32
AsU32(v) == (v % 65536) + 65536 * ((v \div 65536) % 65536)

\* v as i32
AsI32(v) ==
    IF ((v \div 65536) % 65536) >= 32768
    THEN (((v \div 65536) % 65536) - 65536) * 65536 + (v % 65536)
    ELSE ((v \div 65536) % 65536) * 65536 + (v % 65536)

StartsWith(s, p) == Len(s) >= Len(p) /\ SubSeq(s, 1, Len(p)) = p

IsAsciiUppercase(c) == c >= 65 /\ c <= 90

-----------------------------------------------------------------------------
(* src/src/file.rs: Position *)

Position(co, pic) == [chunk_offset |-> co, position_in_chunk |-> pic]

\* #[derive(PartialOrd)]: lexicographic on (chunk_offset, position_in_chunk)
PositionLess(a, b) ==
    \/ a.chunk_offset < b.chunk_offset
    \/ a.chunk_offset = b.chunk_offset /\ a.position_in_chunk < b.position_in_chunk

-----------------------------------------------------------------------------
(* src/src/file.rs: SnappyFile.                                            *)
(* A chunk of the file is [clen, hdr_ok, dlen, body_ok, data]: clen bytes  *)
(* of compressed payload, whose Snappy header is well formed or not and    *)
(* announces dlen decompressed bytes, and whose body decompresses to data  *)
(* (body_ok) or is rejected after data has been written.                   *)

Magic == <<97, 116>>

ChunkLengthBytes == 4

RECURSIVE ChunkStart(_, _)
ChunkStart(chunks, n) ==
    IF n = 0 THEN Len(Magic)
    ELSE ChunkStart(chunks, n - 1) + ChunkLengthBytes + chunks[n].clen

\* snappy_file.stream_position()
StreamPosition(self) == ChunkStart(self.snappy_file.chunks, self.file_idx)

\* Vec::resize growing the buffer: RawVec::grow_amortized, at least 8 bytes
GrowAmortized(cap, required) == Max(8, Max(2 * cap, required))

EnsureCacheCapacity(self, size) ==
    IF size > self.cache_cap
    THEN [self EXCEPT !.cache = self.cache \o Repeat(0, size - Len(self.cache)),
                      !.cache_cap = GrowAmortized(self.cache_cap, size),
                      !.cache_pos = 0]
    ELSE [self EXCEPT !.cache_pos = 0]

\* snap::raw::decompress_len(&buffer)
DecompressLen(c) ==
    IF c.clen = 0 THEN [err |-> "Ok", val |-> 0]
    ELSE IF c.hdr_ok THEN [err |-> "Ok", val |-> c.dlen]
    ELSE [err |-> "DecompressionError", val |-> 0]

\* the cache after the decoder has written the chunk's data at its start
Written(self, c) ==
    [self EXCEPT !.cache = c.data \o SubSeq(self.cache, Len(c.data) + 1, Len(self.cache))]

\* snappy_decoder.decompress(&buffer, &mut self.cache)
Decompress(self, c) ==
    IF c.clen = 0 \/ c.dlen > Len(self.cache) THEN Err(self, "DecompressionError")
    ELSE IF c.body_ok THEN Ok(Written(self, c), c.dlen)
    ELSE Err(Written(self, c), "DecompressionError")

\* load_next_chunk once chunk_offset is set: the length, the payload, the decoder
LoadChunk(self) ==
    IF self.file_idx >= Len(self.snappy_file.chunks) THEN Err(self, "Io")
    ELSE IF DecompressLen(self.snappy_file.chunks[self.file_idx + 1]).err # "Ok"
    THEN Err([self EXCEPT !.file_idx = @ + 1], "DecompressionError")
    ELSE Decompress(
             EnsureCacheCapacity([self EXCEPT !.file_idx = @ + 1],
                 DecompressLen(self.snappy_file.chunks[self.file_idx + 1]).val),
             self.snappy_file.chunks[self.file_idx + 1])

\* faulty variant of LoadNextChunk: chunk_offset is left as it is
LoadNextChunkKeepsOffset(self) == LoadChunk(self)

LoadNextChunk(self) == LoadChunk([self EXCEPT !.chunk_offset = StreamPosition(self)])

CacheRemaining(self) ==
    IF Len(self.cache) >= self.cache_pos THEN Len(self.cache) - self.cache_pos ELSE 0

\* the n bytes at the cursor
CacheSlice(self, n) == SubSeq(self.cache, self.cache_pos + 1, self.cache_pos + n)

\* self.cache_pos += n
Advance(self, n) == [self EXCEPT !.cache_pos = @ + n, !.consumed = @ + n]

RECURSIVE ReadBytesLoop(_, _, _)

\* after load_next_chunk()?
ReadBytesLoaded(l, size_to_read, buf) ==
    IF l.err # "Ok" THEN l ELSE ReadBytesLoop(l.self, size_to_read, buf)

\* if size_to_read > 0 { load_next_chunk()? }
ReadBytesMore(self, size_to_read, buf) ==
    IF size_to_read > 0 THEN ReadBytesLoaded(LoadNextChunk(self), size_to_read, buf)
    ELSE Ok(self, buf)

\* the while loop of read_bytes
ReadBytesLoop(self, size_to_read, buf) ==
    LET chunk_size == Min(Len(self.cache) - self.cache_pos, size_to_read)
    IN  ReadBytesMore(Advance(self, chunk_size), size_to_read - chunk_size,
                      buf \o CacheSlice(self, chunk_size))

ReadBytes(self, len) ==
    IF CacheRemaining(self) >= len THEN Ok(Advance(self, len), CacheSlice(self, len))
    ELSE ReadBytesLoop(self, len, <<>>)

\* the one byte of a read_type::<u8>()
FirstByte(r) == IF r.err # "Ok" THEN r ELSE Ok(r.self, r.val[1])

\* read_type::<u8>()
ReadU8(self) == FirstByte(ReadBytes(self, 1))

UsizeBits == 64

RECURSIVE ReadVarintLoop(_, _, _)

\* one turn of the loop of read_varint, r the read of its byte
VarintByte(r, return_value, shift) ==
    IF r.err # "Ok" THEN Ok(r.self, return_value)
    ELSE IF r.val[1] < 128
    THEN Ok(r.self, return_value + ShiftLeft(r.val[1] % 128, shift))
    ELSE IF shift + 7 >= UsizeBits THEN Err(r.self, "InsufficientData")
    ELSE ReadVarintLoop(r.self, return_value + ShiftLeft(r.val[1] % 128, shift), shift + 7)

ReadVarintLoop(self, return_value, shift) ==
    VarintByte(ReadBytes(self, 1), return_value, shift)

ReadVarint(self) == ReadVarintLoop(self, 0, 0)

\* read_varint with the usize kept at its 64-bit width: the value is the
\* sequence of its 7-bit groups, lowest first; the last group holds bit 63 alone
WideGroups == (UsizeBits + 6) \div 7

WideZero == [i \in 1..WideGroups |-> 0]

\* faulty variant of WideOr: the value is cut to its low 32 bits
WideOrNarrow(return_value, b, shift) ==
    IF shift >= 32 THEN return_value
    ELSE [return_value EXCEPT ![shift \div 7 + 1] =
              IF shift + 7 <= 32 THEN b % 128 ELSE (b % 128) % (2 ^ (32 - shift))]

\* return_value |= (single_val as usize & 0x7f) << shift: the group at shift
\* is still 0, and the bits shifted past bit 63 are lost
WideOr(return_value, b, shift) ==
    IF shift >= UsizeBits THEN return_value
    ELSE [return_value EXCEPT ![shift \div 7 + 1] =
              IF shift + 7 <= UsizeBits THEN b % 128
              ELSE (b % 128) % (2 ^ (UsizeBits - shift))]

\* faulty variant of WideOverflow: the limit is tested one byte late
WideOverflowLate(shift) == shift >= UsizeBits + 7

\* shift += 7; ...; if shift >= usize::BITS as usize
WideOverflow(shift) == shift + 7 >= UsizeBits

RECURSIVE ReadVarintWideLoop(_, _, _)

\* one turn of the loop of read_varint, r the read of its byte
WideVarintByte(r, return_value, shift) ==
    IF r.err # "Ok" THEN Ok(r.self, return_value)
    ELSE IF r.val[1] < 128 THEN Ok(r.self, WideOr(return_value, r.val[1], shift))
    ELSE IF WideOverflow(shift) THEN Err(r.self, "InsufficientData")
    ELSE ReadVarintWideLoop(r.self, WideOr(return_value, r.val[1], shift), shift + 7)

ReadVarintWideLoop(self, return_value, shift) ==
    WideVarintByte(ReadBytes(self, 1), return_value, shift)

ReadVarintWide(self) == ReadVarintWideLoop(self, WideZero, 0)

\* String::from_utf8: the well-formed UTF-8 byte sequences
RECURSIVE IsUtf8(_)
IsUtf8(b) ==
    LET Cont(i) == i <= Len(b) /\ b[i] >= 128 /\ b[i] <= 191
        In(i, lo, hi) == i <= Len(b) /\ b[i] >= lo /\ b[i] <= hi
        Rest(n) == IsUtf8(SubSeq(b, n + 1, Len(b)))
    IN  IF b = <<>> THEN TRUE
        ELSE IF b[1] <= 127 THEN Rest(1)
        ELSE IF b[1] >= 194 /\ b[1] <= 223 THEN Cont(2) /\ Rest(2)
        ELSE IF b[1] = 224 THEN In(2, 160, 191) /\ Cont(3) /\ Rest(3)
        ELSE IF b[1] = 237 THEN In(2, 128, 159) /\ Cont(3) /\ Rest(3)
        ELSE IF b[1] >= 225 /\ b[1] <= 239 THEN Cont(2) /\ Cont(3) /\ Rest(3)
        ELSE IF b[1] = 240 THEN In(2, 144, 191) /\ Cont(3) /\ Cont(4) /\ Rest(4)
        ELSE IF b[1] >= 241 /\ b[1] <= 243 THEN Cont(2) /\ Cont(3) /\ Cont(4) /\ Rest(4)
        ELSE IF b[1] = 244 THEN In(2, 128, 143) /\ Cont(3) /\ Cont(4) /\ Rest(4)
        ELSE FALSE

\* faulty variant of StringOfBytes: the bytes are returned without validation
StringOfBytesUnchecked(r) == r

\* Ok(String::from_utf8(buffer)?)
StringOfBytes(r) ==
    IF r.err # "Ok" THEN r
    ELSE IF IsUtf8(r.val) THEN r
    ELSE Err(r.self, "ConversionError")

\* read_string after its length
StringOfLen(l) ==
    IF l.err # "Ok" THEN l
    ELSE IF l.val = 0 THEN Err(l.self, "InsufficientData")
    ELSE StringOfBytes(ReadBytes(l.self, l.val))

ReadString(self) == StringOfLen(ReadVarint(self))

GetCurrentOffset(self) == Position(self.chunk_offset, self.cache_pos)

\* trace::Type discriminants
TypeNull == 0
TypeFalse == 1
TypeTrue == 2
TypeSint == 3
TypeUint == 4
TypeFloat == 5
TypeDouble == 6
TypeString == 7
TypeBlob == 8
TypeEnum == 9
TypeBitmask == 10
TypeArray == 11
TypeStruct == 12
TypeOpaque == 13
TypeRepr == 14
TypeWstring == 15

\* Ok(-(read_varint()? as i64))
Negated(v) == IF v.err # "Ok" THEN v ELSE Ok(v.self, 0 - v.val)

\* read_signed_varint after its tag byte
SignedOfTag(t) ==
    IF t.err # "Ok" THEN Ok(t.self, 0)
    ELSE IF t.val = TypeSint THEN Negated(ReadVarint(t.self))
    ELSE IF t.val = TypeUint THEN ReadVarint(t.self)
    ELSE Err(t.self, "Panic")

ReadSignedVarint(self) == SignedOfTag(ReadU8(self))
-----------------------------------------------------------------------------
(* src/src/trace.rs: the call-flag classifier.                             *)
(* A regular expression is a tree of Lit / Cls / Cat / Alt / Star / Plus / *)
(* Opt nodes; Ends(re, s, I) is the set of offsets in s at which a match   *)
(* of re that starts at an offset of I can end.                            *)

Lit(s) == [t |-> "lit", s |-> s]

Cls(set) == [t |-> "cls", set |-> set]

Cat(rs) == [t |-> "cat", rs |-> rs]

Alt(rs) == [t |-> "alt", rs |-> rs]

Star(r) == [t |-> "star", r |-> r]

Plus(r) == [t |-> "plus", r |-> r]

Opt(r) == [t |-> "opt", r |-> r]

RECURSIVE Ends(_, _, _)
Ends(re, s, I) ==
    CASE re.t = "lit" ->
            {j + Len(re.s) : j \in {k \in I : /\ k + Len(re.s) <= Len(s)
                                              /\ SubSeq(s, k + 1, k + Len(re.s)) = re.s}}
      [] re.t = "cls" -> {j + 1 : j \in {k \in I : k < Len(s) /\ s[k + 1] \in re.set}}
      [] re.t = "cat" -> IF re.rs = <<>> THEN I
                         ELSE Ends(Cat(Tail(re.rs)), s, Ends(Head(re.rs), s, I))
      [] re.t = "alt" -> UNION {Ends(re.rs[k], s, I) : k \in 1..Len(re.rs)}
      [] re.t = "opt" -> I \cup Ends(re.r, s, I)
      [] re.t = "star" -> LET J == Ends(re.r, s, I)
                          IN  IF J \subseteq I THEN I ELSE Ends(re, s, I \cup J)
      [] re.t = "plus" -> Ends(Star(re.r), s, Ends(re.r, s, I))

\* Regex::is_match for a pattern anchored as ^...$
IsFullMatch(re, s) == Len(s) \in Ends(re, s, {0})

\* Regex::is_match for a pattern anchored as ^... only
IsPrefixMatch(re, s) == Ends(re, s, {0}) # {}

Upper == 65..90

Lower == 97..122

Digit == 48..57

Alpha == Upper \cup Lower

\* \w on ASCII
Word == Alpha \cup Digit \cup {95}

\* the line break and indentation that the multi-line patterns carry in front
\* of each alternative (the patterns are compiled without the x flag)
Indent == <<10>> \o [i \in 1..24 |-> 32]

\* ^gl([A-Z][a-z]+)*Draw(Range|Mesh)?(Arrays|Elements)([A-Z][a-zA-Z]*)?$
GlReDraw ==
    Cat(<<Lit(<<103, 108>>), Star(Cat(<<Cls(Upper), Plus(Cls(Lower))>>)), Lit(<<68, 114, 97, 119>>),
          Opt(Alt(<<Lit(<<82, 97, 110, 103, 101>>), Lit(<<77, 101, 115, 104>>)>>)), Alt(<<Lit(<<65, 114, 114, 97, 121, 115>>), Lit(<<69, 108, 101, 109, 101, 110, 116, 115>>)>>),
          Opt(Cat(<<Cls(Upper), Star(Cls(Alpha))>>))>>)

\* ^gl(<indent>CallLists?|<indent>Clear|<indent>End|<indent>DrawPixels|
\*      <indent>DrawTransformFeedback([A-Z][a-zA-Z]*)?|<indent>BlitFramebuffer|
\*      <indent>Rect[dfis]v?|<indent>EvalMesh[0-9]+)[0-9A-Z]*$
GlReMiscDraw ==
    Cat(<<Lit(<<103, 108>>),
          Alt(<<Cat(<<Lit(Indent), Lit(<<67, 97, 108, 108, 76, 105, 115, 116>>), Opt(Lit(<<115>>))>>),
                Cat(<<Lit(Indent), Lit(<<67, 108, 101, 97, 114>>)>>),
                Cat(<<Lit(Indent), Lit(<<69, 110, 100>>)>>),
                Cat(<<Lit(Indent), Lit(<<68, 114, 97, 119, 80, 105, 120, 101, 108, 115>>)>>),
                Cat(<<Lit(Indent), Lit(<<68, 114, 97, 119, 84, 114, 97, 110, 115, 102, 111, 114, 109, 70, 101, 101, 100, 98, 97, 99, 107>>),
                      Opt(Cat(<<Cls(Upper), Star(Cls(Alpha))>>))>>),
                Cat(<<Lit(Indent), Lit(<<66, 108, 105, 116, 70, 114, 97, 109, 101, 98, 117, 102, 102, 101, 114>>)>>),
                Cat(<<Lit(Indent), Lit(<<82, 101, 99, 116>>), Cls({100, 102, 105, 115}), Opt(Lit(<<118>>))>>),
                Cat(<<Lit(Indent), Lit(<<69, 118, 97, 108, 77, 101, 115, 104>>), Plus(Cls(Digit))>>)>>),
          Star(Cls(Digit \cup Upper))>>)

\* ^glBindFramebuffer[0-9A-Z]*
GlReFbo == Cat(<<Lit(<<103, 108, 66, 105, 110, 100, 70, 114, 97, 109, 101, 98, 117, 102, 102, 101, 114>>), Star(Cls(Digit \cup Upper))>>)

\* ^gl(<indent>GetFloat|<indent>GetInteger|<indent>GetVertexAttrib|
\*      <indent>GetTex(ture)?(Level)?Parameter<indent>)\w+$
GlReGet ==
    Cat(<<Lit(<<103, 108>>),
          Alt(<<Cat(<<Lit(Indent), Lit(<<71, 101, 116, 70, 108, 111, 97, 116>>)>>),
                Cat(<<Lit(Indent), Lit(<<71, 101, 116, 73, 110, 116, 101, 103, 101, 114>>)>>),
                Cat(<<Lit(Indent), Lit(<<71, 101, 116, 86, 101, 114, 116, 101, 120, 65, 116, 116, 114, 105, 98>>)>>),
                Cat(<<Lit(Indent), Lit(<<71, 101, 116, 84, 101, 120>>), Opt(Lit(<<116, 117, 114, 101>>)), Opt(Lit(<<76, 101, 118, 101, 108>>)),
                      Lit(<<80, 97, 114, 97, 109, 101, 116, 101, 114>>), Lit(Indent)>>)>>),
          Plus(Cls(Word))>>)

\* ^IDXGI(Decode)?SwapChain\w*::Present\w*$
DxRePresent ==
    Cat(<<Lit(<<73, 68, 88, 71, 73>>), Opt(Lit(<<68, 101, 99, 111, 100, 101>>)), Lit(<<83, 119, 97, 112, 67, 104, 97, 105, 110>>), Star(Cls(Word)), Lit(<<58, 58, 80, 114, 101, 115, 101, 110, 116>>), Star(Cls(Word))>>)

\* ^ID3D1(0Device|1DeviceContext)\d*::(Draw\w*|ExecuteCommandList)$
DxReDraw ==
    Cat(<<Lit(<<73, 68, 51, 68, 49>>), Alt(<<Lit(<<48, 68, 101, 118, 105, 99, 101>>), Lit(<<49, 68, 101, 118, 105, 99, 101, 67, 111, 110, 116, 101, 120, 116>>)>>), Star(Cls(Digit)), Lit(<<58, 58>>),
          Alt(<<Cat(<<Lit(<<68, 114, 97, 119>>), Star(Cls(Word))>>), Lit(<<69, 120, 101, 99, 117, 116, 101, 67, 111, 109, 109, 97, 110, 100, 76, 105, 115, 116>>)>>)>>)

\* ^ID3D1(0Device|1DeviceContext)\d*::OMSetRenderTargets\w*$
DxReSrt ==
    Cat(<<Lit(<<73, 68, 51, 68, 49>>), Alt(<<Lit(<<48, 68, 101, 118, 105, 99, 101>>), Lit(<<49, 68, 101, 118, 105, 99, 101, 67, 111, 110, 116, 101, 120, 116>>)>>), Star(Cls(Digit)), Lit(<<58, 58, 79, 77, 83, 101, 116, 82, 101, 110, 100, 101, 114, 84, 97, 114, 103, 101, 116, 115>>), Star(Cls(Word))>>)

\* ^ID3D1[01]Device\d*::(CheckFormatSupport|CheckMultisampleQualityLevels)$
DxReCmql ==
    Cat(<<Lit(<<73, 68, 51, 68, 49>>), Cls({48, 49}), Lit(<<68, 101, 118, 105, 99, 101>>), Star(Cls(Digit)), Lit(<<58, 58>>),
          Alt(<<Lit(<<67, 104, 101, 99, 107, 70, 111, 114, 109, 97, 116, 83, 117, 112, 112, 111, 114, 116>>), Lit(<<67, 104, 101, 99, 107, 77, 117, 108, 116, 105, 115, 97, 109, 112, 108, 101, 81, 117, 97, 108, 105, 116, 121, 76, 101, 118, 101, 108, 115>>)>>)>>)

\* CallFlags as u16
CallFlagRender == 8
CallFlagNoSideEffects == 4
CallFlagSwapRendertarget == 16
CallFlagEndFrame == 32
CallFlagVerbose == 128
CallFlagMarker == 256
CallFlagMarkerPush == 512
CallFlagMarkerPop == 1024
CallFlagSwapbuffers == 48

\* the (name, flags) entries of CALL_FLAG_TABLE, in source order
CALL_FLAG_TABLE == <<
    <<<<67, 71, 76, 70, 108, 117, 115, 104, 68, 114, 97, 119, 97, 98, 108, 101>>, 32>>,
    <<<<67, 71, 76, 71, 101, 116, 67, 117, 114, 114, 101, 110, 116, 67, 111, 110, 116, 101, 120, 116>>, 132>>,
    <<<<68, 51, 68, 80, 69, 82, 70, 95, 66, 101, 103, 105, 110, 69, 118, 101, 110, 116>>, 768>>,
    <<<<68, 51, 68, 80, 69, 82, 70, 95, 69, 110, 100, 69, 118, 101, 110, 116>>, 1280>>,
    <<<<68, 51, 68, 80, 69, 82, 70, 95, 83, 101, 116, 77, 97, 114, 107, 101, 114>>, 256>>,
    <<<<73, 68, 51, 68, 49, 49, 86, 105, 100, 101, 111, 80, 114, 111, 99, 101, 115, 115, 111, 114, 69, 110, 117, 109, 101, 114, 97, 116, 111, 114, 58, 58, 67, 104, 101, 99, 107, 86, 105, 100, 101, 111, 80, 114, 111, 99, 101, 115, 115, 111, 114, 70, 111, 114, 109, 97, 116>>, 132>>,
    <<<<73, 68, 51, 68, 85, 115, 101, 114, 68, 101, 102, 105, 110, 101, 100, 65, 110, 110, 111, 116, 97, 116, 105, 111, 110, 58, 58, 66, 101, 103, 105, 110, 69, 118, 101, 110, 116>>, 768>>,
    <<<<73, 68, 51, 68, 85, 115, 101, 114, 68, 101, 102, 105, 110, 101, 100, 65, 110, 110, 111, 116, 97, 116, 105, 111, 110, 58, 58, 69, 110, 100, 69, 118, 101, 110, 116>>, 1280>>,
    <<<<73, 68, 51, 68, 85, 115, 101, 114, 68, 101, 102, 105, 110, 101, 100, 65, 110, 110, 111, 116, 97, 116, 105, 111, 110, 58, 58, 83, 101, 116, 77, 97, 114, 107, 101, 114>>, 256>>,
    <<<<73, 68, 105, 114, 101, 99, 116, 51, 68, 56, 58, 58, 67, 104, 101, 99, 107, 68, 101, 118, 105, 99, 101, 70, 111, 114, 109, 97, 116>>, 132>>,
    <<<<73, 68, 105, 114, 101, 99, 116, 51, 68, 56, 58, 58, 69, 110, 117, 109, 65, 100, 97, 112, 116, 101, 114, 77, 111, 100, 101, 115>>, 132>>,
    <<<<73, 68, 105, 114, 101, 99, 116, 51, 68, 56, 58, 58, 71, 101, 116, 65, 100, 97, 112, 116, 101, 114, 77, 111, 100, 101, 67, 111, 117, 110, 116>>, 132>>,
    <<<<73, 68, 105, 114, 101, 99, 116, 51, 68, 56, 58, 58, 71, 101, 116, 68, 101, 118, 105, 99, 101, 67, 97, 112, 115>>, 132>>,
    <<<<73, 68, 105, 114, 101, 99, 116, 51, 68, 57, 58, 58, 67, 104, 101, 99, 107, 68, 101, 118, 105, 99, 101, 70, 111, 114, 109, 97, 116>>, 132>>,
    <<<<73, 68, 105, 114, 101, 99, 116, 51, 68, 57, 58, 58, 69, 110, 117, 109, 65, 100, 97, 112, 116, 101, 114, 77, 111, 100, 101, 115>>, 132>>,
    <<<<73, 68, 105, 114, 101, 99, 116, 51, 68, 57, 58, 58, 71, 101, 116, 65, 100, 97, 112, 116, 101, 114, 77, 111, 100, 101, 67, 111, 117, 110, 116>>, 132>>,
    <<<<73, 68, 105, 114, 101, 99, 116, 51, 68, 57, 58, 58, 71, 101, 116, 68, 101, 118, 105, 99, 101, 67, 97, 112, 115>>, 132>>,
    <<<<73, 68, 105, 114, 101, 99, 116, 51, 68, 57, 69, 120, 58, 58, 67, 104, 101, 99, 107, 68, 101, 118, 105, 99, 101, 70, 111, 114, 109, 97, 116>>, 132>>,
    <<<<73, 68, 105, 114, 101, 99, 116, 51, 68, 57, 69, 120, 58, 58, 69, 110, 117, 109, 65, 100, 97, 112, 116, 101, 114, 77, 111, 100, 101, 115>>, 132>>,
    <<<<73, 68, 105, 114, 101, 99, 116, 51, 68, 57, 69, 120, 58, 58, 71, 101, 116, 65, 100, 97, 112, 116, 101, 114, 77, 111, 100, 101, 67, 111, 117, 110, 116>>, 132>>,
    <<<<73, 68, 105, 114, 101, 99, 116, 51, 68, 57, 69, 120, 58, 58, 71, 101, 116, 68, 101, 118, 105, 99, 101, 67, 97, 112, 115>>, 132>>,
    <<<<73, 68, 105, 114, 101, 99, 116, 51, 68, 68, 101, 118, 105, 99, 101, 50, 58, 58, 68, 114, 97, 119, 73, 110, 100, 101, 120, 101, 100, 80, 114, 105, 109, 105, 116, 105, 118, 101>>, 8>>,
    <<<<73, 68, 105, 114, 101, 99, 116, 51, 68, 68, 101, 118, 105, 99, 101, 50, 58, 58, 68, 114, 97, 119, 80, 114, 105, 109, 105, 116, 105, 118, 101>>, 8>>,
    <<<<73, 68, 105, 114, 101, 99, 116, 51, 68, 68, 101, 118, 105, 99, 101, 51, 58, 58, 68, 114, 97, 119, 73, 110, 100, 101, 120, 101, 100, 80, 114, 105, 109, 105, 116, 105, 118, 101>>, 8>>,
    <<<<73, 68, 105, 114, 101, 99, 116, 51, 68, 68, 101, 118, 105, 99, 101, 51, 58, 58, 68, 114, 97, 119, 73, 110, 100, 101, 120, 101, 100, 80, 114, 105, 109, 105, 116, 105, 118, 101, 83, 116, 114, 105, 100, 101, 100>>, 8>>,
    <<<<73, 68, 105, 114, 101, 99, 116, 51, 68, 68, 101, 118, 105, 99, 101, 51, 58, 58, 68, 114, 97, 119, 73, 110, 100, 101, 120, 101, 100, 80, 114, 105, 109, 105, 116, 105, 118, 101, 86, 66>>, 8>>,
    <<<<73, 68, 105, 114, 101, 99, 116, 51, 68, 68, 101, 118, 105, 99, 101, 51, 58, 58, 68, 114, 97, 119, 80, 114, 105, 109, 105, 116, 105, 118, 101>>, 8>>,
    <<<<73, 68, 105, 114, 101, 99, 116, 51, 68, 68, 101, 118, 105, 99, 101, 51, 58, 58, 68, 114, 97, 119, 80, 114, 105, 109, 105, 116, 105, 118, 101, 83, 116, 114, 105, 100, 101, 100>>, 8>>,
    <<<<73, 68, 105, 114, 101, 99, 116, 51, 68, 68, 101, 118, 105, 99, 101, 51, 58, 58, 68, 114, 97, 119, 80, 114, 105, 109, 105, 116, 105, 118, 101, 86, 66>>, 8>>,
    <<<<73, 68, 105, 114, 101, 99, 116, 51, 68, 68, 101, 118, 105, 99, 101, 55, 58, 58, 67, 108, 101, 97, 114>>, 8>>,
    <<<<73, 68, 105, 114, 101, 99, 116, 51, 68, 68, 101, 118, 105, 99, 101, 55, 58, 58, 68, 114, 97, 119, 73, 110, 100, 101, 120, 101, 100, 80, 114, 105, 109, 105, 116, 105, 118, 101>>, 8>>,
    <<<<73, 68, 105, 114, 101, 99, 116, 51, 68, 68, 101, 118, 105, 99, 101, 55, 58, 58, 68, 114, 97, 119, 73, 110, 100, 101, 120, 101, 100, 80, 114, 105, 109, 105, 116, 105, 118, 101, 83, 116, 114, 105, 100, 101, 100>>, 8>>,
    <<<<73, 68, 105, 114, 101, 99, 116, 51, 68, 68, 101, 118, 105, 99, 101, 55, 58, 58, 68, 114, 97, 119, 73, 110, 100, 101, 120, 101, 100, 80, 114, 105, 109, 105, 116, 105, 118, 101, 86, 66>>, 8>>,
    <<<<73, 68, 105, 114, 101, 99, 116, 51, 68, 68, 101, 118, 105, 99, 101, 55, 58, 58, 68, 114, 97, 119, 80, 114, 105, 109, 105, 116, 105, 118, 101>>, 8>>,
    <<<<73, 68, 105, 114, 101, 99, 116, 51, 68, 68, 101, 118, 105, 99, 101, 55, 58, 58, 68, 114, 97, 119, 80, 114, 105, 109, 105, 116, 105, 118, 101, 83, 116, 114, 105, 100, 101, 100>>, 8>>,
    <<<<73, 68, 105, 114, 101, 99, 116, 51, 68, 68, 101, 118, 105, 99, 101, 55, 58, 58, 68, 114, 97, 119, 80, 114, 105, 109, 105, 116, 105, 118, 101, 86, 66>>, 8>>,
    <<<<73, 68, 105, 114, 101, 99, 116, 51, 68, 68, 101, 118, 105, 99, 101, 56, 58, 58, 67, 108, 101, 97, 114>>, 8>>,
    <<<<73, 68, 105, 114, 101, 99, 116, 51, 68, 68, 101, 118, 105, 99, 101, 56, 58, 58, 68, 114, 97, 119, 73, 110, 100, 101, 120, 101, 100, 80, 114, 105, 109, 105, 116, 105, 118, 101>>, 8>>,
    <<<<73, 68, 105, 114, 101, 99, 116, 51, 68, 68, 101, 118, 105, 99, 101, 56, 58, 58, 68, 114, 97, 119, 73, 110, 100, 101, 120, 101, 100, 80, 114, 105, 109, 105, 116, 105, 118, 101, 85, 80>>, 8>>,
    <<<<73, 68, 105, 114, 101, 99, 116, 51, 68, 68, 101, 118, 105, 99, 101, 56, 58, 58, 68, 114, 97, 119, 80, 114, 105, 109, 105, 116, 105, 118, 101>>, 8>>,
    <<<<73, 68, 105, 114, 101, 99, 116, 51, 68, 68, 101, 118, 105, 99, 101, 56, 58, 58, 68, 114, 97, 119, 80, 114, 105, 109, 105, 116, 105, 118, 101, 85, 80>>, 8>>,
    <<<<73, 68, 105, 114, 101, 99, 116, 51, 68, 68, 101, 118, 105, 99, 101, 56, 58, 58, 68, 114, 97, 119, 82, 101, 99, 116, 80, 97, 116, 99, 104>>, 8>>,
    <<<<73, 68, 105, 114, 101, 99, 116, 51, 68, 68, 101, 118, 105, 99, 101, 56, 58, 58, 68, 114, 97, 119, 84, 114, 105, 80, 97, 116, 99, 104>>, 8>>,
    <<<<73, 68, 105, 114, 101, 99, 116, 51, 68, 68, 101, 118, 105, 99, 101, 56, 58, 58, 71, 101, 116, 68, 101, 118, 105, 99, 101, 67, 97, 112, 115>>, 132>>,
    <<<<73, 68, 105, 114, 101, 99, 116, 51, 68, 68, 101, 118, 105, 99, 101, 56, 58, 58, 80, 114, 101, 115, 101, 110, 116>>, 48>>,
    <<<<73, 68, 105, 114, 101, 99, 116, 51, 68, 68, 101, 118, 105, 99, 101, 56, 58, 58, 83, 101, 116, 82, 101, 110, 100, 101, 114, 84, 97, 114, 103, 101, 116>>, 16>>,
    <<<<73, 68, 105, 114, 101, 99, 116, 51, 68, 68, 101, 118, 105, 99, 101, 57, 58, 58, 67, 108, 101, 97, 114>>, 8>>,
    <<<<73, 68, 105, 114, 101, 99, 116, 51, 68, 68, 101, 118, 105, 99, 101, 57, 58, 58, 68, 114, 97, 119, 73, 110, 100, 101, 120, 101, 100, 80, 114, 105, 109, 105, 116, 105, 118, 101>>, 8>>,
    <<<<73, 68, 105, 114, 101, 99, 116, 51, 68, 68, 101, 118, 105, 99, 101, 57, 58, 58, 68, 114, 97, 119, 73, 110, 100, 101, 120, 101, 100, 80, 114, 105, 109, 105, 116, 105, 118, 101, 85, 80>>, 8>>,
    <<<<73, 68, 105, 114, 101, 99, 116, 51, 68, 68, 101, 118, 105, 99, 101, 57, 58, 58, 68, 114, 97, 119, 80, 114, 105, 109, 105, 116, 105, 118, 101>>, 8>>,
    <<<<73, 68, 105, 114, 101, 99, 116, 51, 68, 68, 101, 118, 105, 99, 101, 57, 58, 58, 68, 114, 97, 119, 80, 114, 105, 109, 105, 116, 105, 118, 101, 85, 80>>, 8>>,
    <<<<73, 68, 105, 114, 101, 99, 116, 51, 68, 68, 101, 118, 105, 99, 101, 57, 58, 58, 68, 114, 97, 119, 82, 101, 99, 116, 80, 97, 116, 99, 104>>, 8>>,
    <<<<73, 68, 105, 114, 101, 99, 116, 51, 68, 68, 101, 118, 105, 99, 101, 57, 58, 58, 68, 114, 97, 119, 84, 114, 105, 80, 97, 116, 99, 104>>, 8>>,
    <<<<73, 68, 105, 114, 101, 99, 116, 51, 68, 68, 101, 118, 105, 99, 101, 57, 58, 58, 71, 101, 116, 68, 101, 118, 105, 99, 101, 67, 97, 112, 115>>, 132>>,
    <<<<73, 68, 105, 114, 101, 99, 116, 51, 68, 68, 101, 118, 105, 99, 101, 57, 58, 58, 71, 101, 116, 82, 101, 110, 100, 101, 114, 84, 97, 114, 103, 101, 116, 68, 97, 116, 97>>, 32>>,
    <<<<73, 68, 105, 114, 101, 99, 116, 51, 68, 68, 101, 118, 105, 99, 101, 57, 58, 58, 80, 114, 101, 115, 101, 110, 116>>, 48>>,
    <<<<73, 68, 105, 114, 101, 99, 116, 51, 68, 68, 101, 118, 105, 99, 101, 57, 58, 58, 83, 101, 116, 82, 101, 110, 100, 101, 114, 84, 97, 114, 103, 101, 116>>, 16>>,
    <<<<73, 68, 105, 114, 101, 99, 116, 51, 68, 68, 101, 118, 105, 99, 101, 57, 69, 120, 58, 58, 67, 108, 101, 97, 114>>, 8>>,
    <<<<73, 68, 105, 114, 101, 99, 116, 51, 68, 68, 101, 118, 105, 99, 101, 57, 69, 120, 58, 58, 68, 114, 97, 119, 73, 110, 100, 101, 120, 101, 100, 80, 114, 105, 109, 105, 116, 105, 118, 101>>, 8>>,
    <<<<73, 68, 105, 114, 101, 99, 116, 51, 68, 68, 101, 118, 105, 99, 101, 57, 69, 120, 58, 58, 68, 114, 97, 119, 73, 110, 100, 101, 120, 101, 100, 80, 114, 105, 109, 105, 116, 105, 118, 101, 85, 80>>, 8>>,
    <<<<73, 68, 105, 114, 101, 99, 116, 51, 68, 68, 101, 118, 105, 99, 101, 57, 69, 120, 58, 58, 68, 114, 97, 119, 80, 114, 105, 109, 105, 116, 105, 118, 101>>, 8>>,
    <<<<73, 68, 105, 114, 101, 99, 116, 51, 68, 68, 101, 118, 105, 99, 101, 57, 69, 120, 58, 58, 68, 114, 97, 119, 80, 114, 105, 109, 105, 116, 105, 118, 101, 85, 80>>, 8>>,
    <<<<73, 68, 105, 114, 101, 99, 116, 51, 68, 68, 101, 118, 105, 99, 101, 57, 69, 120, 58, 58, 68, 114, 97, 119, 82, 101, 99, 116, 80, 97, 116, 99, 104>>, 8>>,
    <<<<73, 68, 105, 114, 101, 99, 116, 51, 68, 68, 101, 118, 105, 99, 101, 57, 69, 120, 58, 58, 68, 114, 97, 119, 84, 114, 105, 80, 97, 116, 99, 104>>, 8>>,
    <<<<73, 68, 105, 114, 101, 99, 116, 51, 68, 68, 101, 118, 105, 99, 101, 57, 69, 120, 58, 58, 71, 101, 116, 68, 101, 118, 105, 99, 101, 67, 97, 112, 115>>, 132>>,
    <<<<73, 68, 105, 114, 101, 99, 116, 51, 68, 68, 101, 118, 105, 99, 101, 57, 69, 120, 58, 58, 71, 101, 116, 82, 101, 110, 100, 101, 114, 84, 97, 114, 103, 101, 116, 68, 97, 116, 97>>, 32>>,
    <<<<73, 68, 105, 114, 101, 99, 116, 51, 68, 68, 101, 118, 105, 99, 101, 57, 69, 120, 58, 58, 80, 114, 101, 115, 101, 110, 116>>, 48>>,
    <<<<73, 68, 105, 114, 101, 99, 116, 51, 68, 68, 101, 118, 105, 99, 101, 57, 69, 120, 58, 58, 80, 114, 101, 115, 101, 110, 116, 69, 120>>, 48>>,
    <<<<73, 68, 105, 114, 101, 99, 116, 51, 68, 68, 101, 118, 105, 99, 101, 57, 69, 120, 58, 58, 83, 101, 116, 82, 101, 110, 100, 101, 114, 84, 97, 114, 103, 101, 116>>, 16>>,
    <<<<73, 68, 105, 114, 101, 99, 116, 51, 68, 83, 119, 97, 112, 67, 104, 97, 105, 110, 57, 58, 58, 80, 114, 101, 115, 101, 110, 116>>, 48>>,
    <<<<73, 68, 105, 114, 101, 99, 116, 51, 68, 83, 119, 97, 112, 67, 104, 97, 105, 110, 57, 69, 120, 58, 58, 80, 114, 101, 115, 101, 110, 116>>, 48>>,
    <<<<73, 68, 105, 114, 101, 99, 116, 51, 68, 86, 105, 101, 119, 112, 111, 114, 116, 50, 58, 58, 67, 108, 101, 97, 114>>, 8>>,
    <<<<73, 68, 105, 114, 101, 99, 116, 51, 68, 86, 105, 101, 119, 112, 111, 114, 116, 51, 58, 58, 67, 108, 101, 97, 114>>, 8>>,
    <<<<73, 68, 105, 114, 101, 99, 116, 51, 68, 86, 105, 101, 119, 112, 111, 114, 116, 51, 58, 58, 67, 108, 101, 97, 114, 50>>, 8>>,
    <<<<73, 68, 105, 114, 101, 99, 116, 51, 68, 86, 105, 101, 119, 112, 111, 114, 116, 58, 58, 67, 108, 101, 97, 114>>, 8>>,
    <<<<101, 103, 108, 71, 101, 116, 67, 111, 110, 102, 105, 103, 65, 116, 116, 114, 105, 98>>, 128>>,
    <<<<101, 103, 108, 71, 101, 116, 80, 114, 111, 99, 65, 100, 100, 114, 101, 115, 115>>, 132>>,
    <<<<101, 103, 108, 81, 117, 101, 114, 121, 83, 116, 114, 105, 110, 103>>, 132>>,
    <<<<101, 103, 108, 83, 101, 116, 68, 97, 109, 97, 103, 101, 82, 101, 103, 105, 111, 110, 75, 72, 82>>, 4>>,
    <<<<101, 103, 108, 83, 119, 97, 112, 66, 117, 102, 102, 101, 114, 115>>, 48>>,
    <<<<101, 103, 108, 83, 119, 97, 112, 66, 117, 102, 102, 101, 114, 115, 87, 105, 116, 104, 68, 97, 109, 97, 103, 101, 69, 88, 84>>, 48>>,
    <<<<101, 103, 108, 83, 119, 97, 112, 66, 117, 102, 102, 101, 114, 115, 87, 105, 116, 104, 68, 97, 109, 97, 103, 101, 75, 72, 82>>, 48>>,
    <<<<103, 108, 65, 114, 101, 80, 114, 111, 103, 114, 97, 109, 115, 82, 101, 115, 105, 100, 101, 110, 116, 78, 86>>, 4>>,
    <<<<103, 108, 65, 114, 101, 84, 101, 120, 116, 117, 114, 101, 115, 82, 101, 115, 105, 100, 101, 110, 116>>, 4>>,
    <<<<103, 108, 65, 114, 101, 84, 101, 120, 116, 117, 114, 101, 115, 82, 101, 115, 105, 100, 101, 110, 116, 69, 88, 84>>, 4>>,
    <<<<103, 108, 66, 117, 102, 102, 101, 114, 82, 101, 103, 105, 111, 110, 69, 110, 97, 98, 108, 101, 100>>, 4>>,
    <<<<103, 108, 68, 101, 98, 117, 103, 77, 101, 115, 115, 97, 103, 101, 67, 111, 110, 116, 114, 111, 108>>, 4>>,
    <<<<103, 108, 68, 101, 98, 117, 103, 77, 101, 115, 115, 97, 103, 101, 67, 111, 110, 116, 114, 111, 108, 65, 82, 66>>, 4>>,
    <<<<103, 108, 68, 101, 98, 117, 103, 77, 101, 115, 115, 97, 103, 101, 69, 110, 97, 98, 108, 101, 65, 77, 68>>, 4>>,
    <<<<103, 108, 68, 101, 98, 117, 103, 77, 101, 115, 115, 97, 103, 101, 73, 110, 115, 101, 114, 116>>, 260>>,
    <<<<103, 108, 68, 101, 98, 117, 103, 77, 101, 115, 115, 97, 103, 101, 73, 110, 115, 101, 114, 116, 65, 77, 68>>, 260>>,
    <<<<103, 108, 68, 101, 98, 117, 103, 77, 101, 115, 115, 97, 103, 101, 73, 110, 115, 101, 114, 116, 65, 82, 66>>, 260>>,
    <<<<103, 108, 68, 101, 98, 117, 103, 77, 101, 115, 115, 97, 103, 101, 73, 110, 115, 101, 114, 116, 75, 72, 82>>, 260>>,
    <<<<103, 108, 70, 114, 97, 109, 101, 84, 101, 114, 109, 105, 110, 97, 116, 111, 114, 71, 82, 69, 77, 69, 68, 89>>, 32>>,
    <<<<103, 108, 71, 101, 116, 65, 99, 116, 105, 118, 101, 65, 116, 111, 109, 105, 99, 67, 111, 117, 110, 116, 101, 114, 66, 117, 102, 102, 101, 114, 105, 118>>, 4>>,
    <<<<103, 108, 71, 101, 116, 65, 99, 116, 105, 118, 101, 65, 116, 116, 114, 105, 98>>, 4>>,
    <<<<103, 108, 71, 101, 116, 65, 99, 116, 105, 118, 101, 65, 116, 116, 114, 105, 98, 65, 82, 66>>, 4>>,
    <<<<103, 108, 71, 101, 116, 65, 99, 116, 105, 118, 101, 83, 117, 98, 114, 111, 117, 116, 105, 110, 101, 78, 97, 109, 101>>, 4>>,
    <<<<103, 108, 71, 101, 116, 65, 99, 116, 105, 118, 101, 83, 117, 98, 114, 111, 117, 116, 105, 110, 101, 85, 110, 105, 102, 111, 114, 109, 78, 97, 109, 101>>, 4>>,
    <<<<103, 108, 71, 101, 116, 65, 99, 116, 105, 118, 101, 83, 117, 98, 114, 111, 117, 116, 105, 110, 101, 85, 110, 105, 102, 111, 114, 109, 105, 118>>, 4>>,
    <<<<103, 108, 71, 101, 116, 65, 99, 116, 105, 118, 101, 85, 110, 105, 102, 111, 114, 109>>, 4>>,
    <<<<103, 108, 71, 101, 116, 65, 99, 116, 105, 118, 101, 85, 110, 105, 102, 111, 114, 109, 65, 82, 66>>, 4>>,
    <<<<103, 108, 71, 101, 116, 65, 99, 116, 105, 118, 101, 85, 110, 105, 102, 111, 114, 109, 66, 108, 111, 99, 107, 78, 97, 109, 101>>, 4>>,
    <<<<103, 108, 71, 101, 116, 65, 99, 116, 105, 118, 101, 85, 110, 105, 102, 111, 114, 109, 66, 108, 111, 99, 107, 105, 118>>, 4>>,
    <<<<103, 108, 71, 101, 116, 65, 99, 116, 105, 118, 101, 85, 110, 105, 102, 111, 114, 109, 78, 97, 109, 101>>, 4>>,
    <<<<103, 108, 71, 101, 116, 65, 99, 116, 105, 118, 101, 85, 110, 105, 102, 111, 114, 109, 115, 105, 118>>, 4>>,
    <<<<103, 108, 71, 101, 116, 65, 99, 116, 105, 118, 101, 86, 97, 114, 121, 105, 110, 103, 78, 86>>, 4>>,
    <<<<103, 108, 71, 101, 116, 65, 114, 114, 97, 121, 79, 98, 106, 101, 99, 116, 102, 118, 65, 84, 73>>, 4>>,
    <<<<103, 108, 71, 101, 116, 65, 114, 114, 97, 121, 79, 98, 106, 101, 99, 116, 105, 118, 65, 84, 73>>, 4>>,
    <<<<103, 108, 71, 101, 116, 65, 116, 116, 97, 99, 104, 101, 100, 79, 98, 106, 101, 99, 116, 115, 65, 82, 66>>, 4>>,
    <<<<103, 108, 71, 101, 116, 65, 116, 116, 97, 99, 104, 101, 100, 83, 104, 97, 100, 101, 114, 115>>, 4>>,
    <<<<103, 108, 71, 101, 116, 66, 111, 111, 108, 101, 97, 110, 73, 110, 100, 101, 120, 101, 100, 118, 69, 88, 84>>, 4>>,
    <<<<103, 108, 71, 101, 116, 66, 111, 111, 108, 101, 97, 110, 105, 95, 118>>, 4>>,
    <<<<103, 108, 71, 101, 116, 66, 111, 111, 108, 101, 97, 110, 118>>, 4>>,
    <<<<103, 108, 71, 101, 116, 66, 117, 102, 102, 101, 114, 80, 97, 114, 97, 109, 101, 116, 101, 114, 105, 54, 52, 118>>, 4>>,
    <<<<103, 108, 71, 101, 116, 66, 117, 102, 102, 101, 114, 80, 97, 114, 97, 109, 101, 116, 101, 114, 105, 118>>, 4>>,
    <<<<103, 108, 71, 101, 116, 66, 117, 102, 102, 101, 114, 80, 97, 114, 97, 109, 101, 116, 101, 114, 105, 118, 65, 82, 66>>, 4>>,
    <<<<103, 108, 71, 101, 116, 66, 117, 102, 102, 101, 114, 80, 97, 114, 97, 109, 101, 116, 101, 114, 117, 105, 54, 52, 118, 78, 86>>, 4>>,
    <<<<103, 108, 71, 101, 116, 66, 117, 102, 102, 101, 114, 80, 111, 105, 110, 116, 101, 114, 118>>, 4>>,
    <<<<103, 108, 71, 101, 116, 66, 117, 102, 102, 101, 114, 80, 111, 105, 110, 116, 101, 114, 118, 65, 82, 66>>, 4>>,
    <<<<103, 108, 71, 101, 116, 66, 117, 102, 102, 101, 114, 83, 117, 98, 68, 97, 116, 97>>, 4>>,
    <<<<103, 108, 71, 101, 116, 66, 117, 102, 102, 101, 114, 83, 117, 98, 68, 97, 116, 97, 65, 82, 66>>, 4>>,
    <<<<103, 108, 71, 101, 116, 67, 108, 105, 112, 80, 108, 97, 110, 101>>, 4>>,
    <<<<103, 108, 71, 101, 116, 67, 111, 108, 111, 114, 84, 97, 98, 108, 101>>, 4>>,
    <<<<103, 108, 71, 101, 116, 67, 111, 108, 111, 114, 84, 97, 98, 108, 101, 69, 88, 84>>, 4>>,
    <<<<103, 108, 71, 101, 116, 67, 111, 108, 111, 114, 84, 97, 98, 108, 101, 80, 97, 114, 97, 109, 101, 116, 101, 114, 102, 118>>, 4>>,
    <<<<103, 108, 71, 101, 116, 67, 111, 108, 111, 114, 84, 97, 98, 108, 101, 80, 97, 114, 97, 109, 101, 116, 101, 114, 102, 118, 69, 88, 84>>, 4>>,
    <<<<103, 108, 71, 101, 116, 67, 111, 108, 111, 114, 84, 97, 98, 108, 101, 80, 97, 114, 97, 109, 101, 116, 101, 114, 102, 118, 83, 71, 73>>, 4>>,
    <<<<103, 108, 71, 101, 116, 67, 111, 108, 111, 114, 84, 97, 98, 108, 101, 80, 97, 114, 97, 109, 101, 116, 101, 114, 105, 118>>, 4>>,
    <<<<103, 108, 71, 101, 116, 67, 111, 108, 111, 114, 84, 97, 98, 108, 101, 80, 97, 114, 97, 109, 101, 116, 101, 114, 105, 118, 69, 88, 84>>, 4>>,
    <<<<103, 108, 71, 101, 116, 67, 111, 108, 111, 114, 84, 97, 98, 108, 101, 80, 97, 114, 97, 109, 101, 116, 101, 114, 105, 118, 83, 71, 73>>, 4>>,
    <<<<103, 108, 71, 101, 116, 67, 111, 108, 111, 114, 84, 97, 98, 108, 101, 83, 71, 73>>, 4>>,
    <<<<103, 108, 71, 101, 116, 67, 111, 109, 98, 105, 110, 101, 114, 73, 110, 112, 117, 116, 80, 97, 114, 97, 109, 101, 116, 101, 114, 102, 118, 78, 86>>, 4>>,
    <<<<103, 108, 71, 101, 116, 67, 111, 109, 98, 105, 110, 101, 114, 73, 110, 112, 117, 116, 80, 97, 114, 97, 109, 101, 116, 101, 114, 105, 118, 78, 86>>, 4>>,
    <<<<103, 108, 71, 101, 116, 67, 111, 109, 98, 105, 110, 101, 114, 79, 117, 116, 112, 117, 116, 80, 97, 114, 97, 109, 101, 116, 101, 114, 102, 118, 78, 86>>, 4>>,
    <<<<103, 108, 71, 101, 116, 67, 111, 109, 98, 105, 110, 101, 114, 79, 117, 116, 112, 117, 116, 80, 97, 114, 97, 109, 101, 116, 101, 114, 105, 118, 78, 86>>, 4>>,
    <<<<103, 108, 71, 101, 116, 67, 111, 109, 98, 105, 110, 101, 114, 83, 116, 97, 103, 101, 80, 97, 114, 97, 109, 101, 116, 101, 114, 102, 118, 78, 86>>, 4>>,
    <<<<103, 108, 71, 101, 116, 67, 111, 110, 118, 111, 108, 117, 116, 105, 111, 110, 70, 105, 108, 116, 101, 114, 69, 88, 84>>, 4>>,
    <<<<103, 108, 71, 101, 116, 67, 111, 110, 118, 111, 108, 117, 116, 105, 111, 110, 80, 97, 114, 97, 109, 101, 116, 101, 114, 102, 118>>, 4>>,
    <<<<103, 108, 71, 101, 116, 67, 111, 110, 118, 111, 108, 117, 116, 105, 111, 110, 80, 97, 114, 97, 109, 101, 116, 101, 114, 102, 118, 69, 88, 84>>, 4>>,
    <<<<103, 108, 71, 101, 116, 67, 111, 110, 118, 111, 108, 117, 116, 105, 111, 110, 80, 97, 114, 97, 109, 101, 116, 101, 114, 105, 118>>, 4>>,
    <<<<103, 108, 71, 101, 116, 67, 111, 110, 118, 111, 108, 117, 116, 105, 111, 110, 80, 97, 114, 97, 109, 101, 116, 101, 114, 105, 118, 69, 88, 84>>, 4>>,
    <<<<103, 108, 71, 101, 116, 68, 101, 116, 97, 105, 108, 84, 101, 120, 70, 117, 110, 99, 83, 71, 73, 83>>, 4>>,
    <<<<103, 108, 71, 101, 116, 68, 111, 117, 98, 108, 101, 73, 110, 100, 101, 120, 101, 100, 118, 69, 88, 84>>, 4>>,
    <<<<103, 108, 71, 101, 116, 68, 111, 117, 98, 108, 101, 105, 95, 118>>, 4>>,
    <<<<103, 108, 71, 101, 116, 68, 111, 117, 98, 108, 101, 118>>, 4>>,
    <<<<103, 108, 71, 101, 116, 69, 114, 114, 111, 114>>, 4>>,
    <<<<103, 108, 71, 101, 116, 70, 101, 110, 99, 101, 105, 118, 78, 86>>, 4>>,
    <<<<103, 108, 71, 101, 116, 70, 105, 110, 97, 108, 67, 111, 109, 98, 105, 110, 101, 114, 73, 110, 112, 117, 116, 80, 97, 114, 97, 109, 101, 116, 101, 114, 102, 118, 78, 86>>, 4>>,
    <<<<103, 108, 71, 101, 116, 70, 105, 110, 97, 108, 67, 111, 109, 98, 105, 110, 101, 114, 73, 110, 112, 117, 116, 80, 97, 114, 97, 109, 101, 116, 101, 114, 105, 118, 78, 86>>, 4>>,
    <<<<103, 108, 71, 101, 116, 70, 111, 103, 70, 117, 110, 99, 83, 71, 73, 83>>, 4>>,
    <<<<103, 108, 71, 101, 116, 70, 114, 97, 103, 68, 97, 116, 97, 73, 110, 100, 101, 120>>, 4>>,
    <<<<103, 108, 71, 101, 116, 70, 114, 97, 103, 109, 101, 110, 116, 76, 105, 103, 104, 116, 102, 118, 83, 71, 73, 88>>, 4>>,
    <<<<103, 108, 71, 101, 116, 70, 114, 97, 103, 109, 101, 110, 116, 76, 105, 103, 104, 116, 105, 118, 83, 71, 73, 88>>, 4>>,
    <<<<103, 108, 71, 101, 116, 70, 114, 97, 103, 109, 101, 110, 116, 77, 97, 116, 101, 114, 105, 97, 108, 102, 118, 83, 71, 73, 88>>, 4>>,
    <<<<103, 108, 71, 101, 116, 70, 114, 97, 103, 109, 101, 110, 116, 77, 97, 116, 101, 114, 105, 97, 108, 105, 118, 83, 71, 73, 88>>, 4>>,
    <<<<103, 108, 71, 101, 116, 70, 114, 97, 109, 101, 98, 117, 102, 102, 101, 114, 65, 116, 116, 97, 99, 104, 109, 101, 110, 116, 80, 97, 114, 97, 109, 101, 116, 101, 114, 105, 118>>, 4>>,
    <<<<103, 108, 71, 101, 116, 70, 114, 97, 109, 101, 98, 117, 102, 102, 101, 114, 65, 116, 116, 97, 99, 104, 109, 101, 110, 116, 80, 97, 114, 97, 109, 101, 116, 101, 114, 105, 118, 69, 88, 84>>, 4>>,
    <<<<103, 108, 71, 101, 116, 70, 114, 97, 109, 101, 98, 117, 102, 102, 101, 114, 80, 97, 114, 97, 109, 101, 116, 101, 114, 105, 118>>, 4>>,
    <<<<103, 108, 71, 101, 116, 70, 114, 97, 109, 101, 98, 117, 102, 102, 101, 114, 80, 97, 114, 97, 109, 101, 116, 101, 114, 105, 118, 69, 88, 84>>, 4>>,
    <<<<103, 108, 71, 101, 116, 71, 114, 97, 112, 104, 105, 99, 115, 82, 101, 115, 101, 116, 83, 116, 97, 116, 117, 115, 65, 82, 66>>, 4>>,
    <<<<103, 108, 71, 101, 116, 72, 97, 110, 100, 108, 101, 65, 82, 66>>, 4>>,
    <<<<103, 108, 71, 101, 116, 72, 105, 115, 116, 111, 103, 114, 97, 109, 69, 88, 84>>, 4>>,
    <<<<103, 108, 71, 101, 116, 72, 105, 115, 116, 111, 103, 114, 97, 109, 80, 97, 114, 97, 109, 101, 116, 101, 114, 102, 118>>, 4>>,
    <<<<103, 108, 71, 101, 116, 72, 105, 115, 116, 111, 103, 114, 97, 109, 80, 97, 114, 97, 109, 101, 116, 101, 114, 102, 118, 69, 88, 84>>, 4>>,
    <<<<103, 108, 71, 101, 116, 72, 105, 115, 116, 111, 103, 114, 97, 109, 80, 97, 114, 97, 109, 101, 116, 101, 114, 105, 118>>, 4>>,
    <<<<103, 108, 71, 101, 116, 72, 105, 115, 116, 111, 103, 114, 97, 109, 80, 97, 114, 97, 109, 101, 116, 101, 114, 105, 118, 69, 88, 84>>, 4>>,
    <<<<103, 108, 71, 101, 116, 73, 109, 97, 103, 101, 84, 114, 97, 110, 115, 102, 111, 114, 109, 80, 97, 114, 97, 109, 101, 116, 101, 114, 102, 118, 72, 80>>, 4>>,
    <<<<103, 108, 71, 101, 116, 73, 109, 97, 103, 101, 84, 114, 97, 110, 115, 102, 111, 114, 109, 80, 97, 114, 97, 109, 101, 116, 101, 114, 105, 118, 72, 80>>, 4>>,
    <<<<103, 108, 71, 101, 116, 73, 110, 102, 111, 76, 111, 103, 65, 82, 66>>, 4>>,
    <<<<103, 108, 71, 101, 116, 73, 110, 115, 116, 114, 117, 109, 101, 110, 116, 115, 83, 71, 73, 88>>, 4>>,
    <<<<103, 108, 71, 101, 116, 73, 110, 116, 101, 114, 110, 97, 108, 102, 111, 114, 109, 97, 116, 105, 54, 52, 118>>, 4>>,
    <<<<103, 108, 71, 101, 116, 73, 110, 116, 101, 114, 110, 97, 108, 102, 111, 114, 109, 97, 116, 105, 118>>, 4>>,
    <<<<103, 108, 71, 101, 116, 73, 110, 118, 97, 114, 105, 97, 110, 116, 66, 111, 111, 108, 101, 97, 110, 118, 69, 88, 84>>, 4>>,
    <<<<103, 108, 71, 101, 116, 73, 110, 118, 97, 114, 105, 97, 110, 116, 70, 108, 111, 97, 116, 118, 69, 88, 84>>, 4>>,
    <<<<103, 108, 71, 101, 116, 73, 110, 118, 97, 114, 105, 97, 110, 116, 73, 110, 116, 101, 103, 101, 114, 118, 69, 88, 84>>, 4>>,
    <<<<103, 108, 71, 101, 116, 76, 105, 103, 104, 116, 102, 118>>, 4>>,
    <<<<103, 108, 71, 101, 116, 76, 105, 103, 104, 116, 105, 118>>, 4>>,
    <<<<103, 108, 71, 101, 116, 76, 105, 115, 116, 80, 97, 114, 97, 109, 101, 116, 101, 114, 102, 118, 83, 71, 73, 88>>, 4>>,
    <<<<103, 108, 71, 101, 116, 76, 105, 115, 116, 80, 97, 114, 97, 109, 101, 116, 101, 114, 105, 118, 83, 71, 73, 88>>, 4>>,
    <<<<103, 108, 71, 101, 116, 76, 111, 99, 97, 108, 67, 111, 110, 115, 116, 97, 110, 116, 66, 111, 111, 108, 101, 97, 110, 118, 69, 88, 84>>, 4>>,
    <<<<103, 108, 71, 101, 116, 76, 111, 99, 97, 108, 67, 111, 110, 115, 116, 97, 110, 116, 70, 108, 111, 97, 116, 118, 69, 88, 84>>, 4>>,
    <<<<103, 108, 71, 101, 116, 76, 111, 99, 97, 108, 67, 111, 110, 115, 116, 97, 110, 116, 73, 110, 116, 101, 103, 101, 114, 118, 69, 88, 84>>, 4>>,
    <<<<103, 108, 71, 101, 116, 77, 97, 112, 65, 116, 116, 114, 105, 98, 80, 97, 114, 97, 109, 101, 116, 101, 114, 102, 118, 78, 86>>, 4>>,
    <<<<103, 108, 71, 101, 116, 77, 97, 112, 65, 116, 116, 114, 105, 98, 80, 97, 114, 97, 109, 101, 116, 101, 114, 105, 118, 78, 86>>, 4>>,
    <<<<103, 108, 71, 101, 116, 77, 97, 112, 67, 111, 110, 116, 114, 111, 108, 80, 111, 105, 110, 116, 115, 78, 86>>, 4>>,
    <<<<103, 108, 71, 101, 116, 77, 97, 112, 80, 97, 114, 97, 109, 101, 116, 101, 114, 102, 118, 78, 86>>, 4>>,
    <<<<103, 108, 71, 101, 116, 77, 97, 112, 80, 97, 114, 97, 109, 101, 116, 101, 114, 105, 118, 78, 86>>, 4>>,
    <<<<103, 108, 71, 101, 116, 77, 97, 112, 100, 118>>, 4>>,
    <<<<103, 108, 71, 101, 116, 77, 97, 112, 102, 118>>, 4>>,
    <<<<103, 108, 71, 101, 116, 77, 97, 112, 105, 118>>, 4>>,
    <<<<103, 108, 71, 101, 116, 77, 97, 116, 101, 114, 105, 97, 108, 102, 118>>, 4>>,
    <<<<103, 108, 71, 101, 116, 77, 97, 116, 101, 114, 105, 97, 108, 105, 118>>, 4>>,
    <<<<103, 108, 71, 101, 116, 77, 105, 110, 109, 97, 120, 69, 88, 84>>, 4>>,
    <<<<103, 108, 71, 101, 116, 77, 105, 110, 109, 97, 120, 80, 97, 114, 97, 109, 101, 116, 101, 114, 102, 118>>, 4>>,
    <<<<103, 108, 71, 101, 116, 77, 105, 110, 109, 97, 120, 80, 97, 114, 97, 109, 101, 116, 101, 114, 102, 118, 69, 88, 84>>, 4>>,
    <<<<103, 108, 71, 101, 116, 77, 105, 110, 109, 97, 120, 80, 97, 114, 97, 109, 101, 116, 101, 114, 105, 118>>, 4>>,
    <<<<103, 108, 71, 101, 116, 77, 105, 110, 109, 97, 120, 80, 97, 114, 97, 109, 101, 116, 101, 114, 105, 118, 69, 88, 84>>, 4>>,
    <<<<103, 108, 71, 101, 116, 77, 117, 108, 116, 105, 84, 101, 120, 69, 110, 118, 102, 118, 69, 88, 84>>, 4>>,
    <<<<103, 108, 71, 101, 116, 77, 117, 108, 116, 105, 84, 101, 120, 69, 110, 118, 105, 118, 69, 88, 84>>, 4>>,
    <<<<103, 108, 71, 101, 116, 77, 117, 108, 116, 105, 84, 101, 120, 71, 101, 110, 100, 118, 69, 88, 84>>, 4>>,
    <<<<103, 108, 71, 101, 116, 77, 117, 108, 116, 105, 84, 101, 120, 71, 101, 110, 102, 118, 69, 88, 84>>, 4>>,
    <<<<103, 108, 71, 101, 116, 77, 117, 108, 116, 105, 84, 101, 120, 71, 101, 110, 105, 118, 69, 88, 84>>, 4>>,
    <<<<103, 108, 71, 101, 116, 77, 117, 108, 116, 105, 84, 101, 120, 76, 101, 118, 101, 108, 80, 97, 114, 97, 109, 101, 116, 101, 114, 102, 118, 69, 88, 84>>, 4>>,
    <<<<103, 108, 71, 101, 116, 77, 117, 108, 116, 105, 84, 101, 120, 76, 101, 118, 101, 108, 80, 97, 114, 97, 109, 101, 116, 101, 114, 105, 118, 69, 88, 84>>, 4>>,
    <<<<103, 108, 71, 101, 116, 77, 117, 108, 116, 105, 84, 101, 120, 80, 97, 114, 97, 109, 101, 116, 101, 114, 73, 105, 118, 69, 88, 84>>, 4>>,
    <<<<103, 108, 71, 101, 116, 77, 117, 108, 116, 105, 84, 101, 120, 80, 97, 114, 97, 109, 101, 116, 101, 114, 73, 117, 105, 118, 69, 88, 84>>, 4>>,
    <<<<103, 108, 71, 101, 116, 77, 117, 108, 116, 105, 84, 101, 120, 80, 97, 114, 97, 109, 101, 116, 101, 114, 102, 118, 69, 88, 84>>, 4>>,
    <<<<103, 108, 71, 101, 116, 77, 117, 108, 116, 105, 84, 101, 120, 80, 97, 114, 97, 109, 101, 116, 101, 114, 105, 118, 69, 88, 84>>, 4>>,
    <<<<103, 108, 71, 101, 116, 77, 117, 108, 116, 105, 115, 97, 109, 112, 108, 101, 102, 118>>, 4>>,
    <<<<103, 108, 71, 101, 116, 77, 117, 108, 116, 105, 115, 97, 109, 112, 108, 101, 102, 118, 78, 86>>, 4>>,
    <<<<103, 108, 71, 101, 116, 78, 97, 109, 101, 100, 66, 117, 102, 102, 101, 114, 80, 97, 114, 97, 109, 101, 116, 101, 114, 105, 118, 69, 88, 84>>, 4>>,
    <<<<103, 108, 71, 101, 116, 78, 97, 109, 101, 100, 66, 117, 102, 102, 101, 114, 80, 97, 114, 97, 109, 101, 116, 101, 114, 117, 105, 54, 52, 118, 78, 86>>, 4>>,
    <<<<103, 108, 71, 101, 116, 78, 97, 109, 101, 100, 66, 117, 102, 102, 101, 114, 80, 111, 105, 110, 116, 101, 114, 118, 69, 88, 84>>, 4>>,
    <<<<103, 108, 71, 101, 116, 78, 97, 109, 101, 100, 66, 117, 102, 102, 101, 114, 83, 117, 98, 68, 97, 116, 97, 69, 88, 84>>, 4>>,
    <<<<103, 108, 71, 101, 116, 78, 97, 109, 101, 100, 70, 114, 97, 109, 101, 98, 117, 102, 102, 101, 114, 65, 116, 116, 97, 99, 104, 109, 101, 110, 116, 80, 97, 114, 97, 109, 101, 116, 101, 114, 105, 118, 69, 88, 84>>, 4>>,
    <<<<103, 108, 71, 101, 116, 78, 97, 109, 101, 100, 70, 114, 97, 109, 101, 98, 117, 102, 102, 101, 114, 80, 97, 114, 97, 109, 101, 116, 101, 114, 105, 118, 69, 88, 84>>, 4>>,
    <<<<103, 108, 71, 101, 116, 78, 97, 109, 101, 100, 80, 114, 111, 103, 114, 97, 109, 76, 111, 99, 97, 108, 80, 97, 114, 97, 109, 101, 116, 101, 114, 73, 105, 118, 69, 88, 84>>, 4>>,
    <<<<103, 108, 71, 101, 116, 78, 97, 109, 101, 100, 80, 114, 111, 103, 114, 97, 109, 76, 111, 99, 97, 108, 80, 97, 114, 97, 109, 101, 116, 101, 114, 73, 117, 105, 118, 69, 88, 84>>, 4>>,
    <<<<103, 108, 71, 101, 116, 78, 97, 109, 101, 100, 80, 114, 111, 103, 114, 97, 109, 76, 111, 99, 97, 108, 80, 97, 114, 97, 109, 101, 116, 101, 114, 100, 118, 69, 88, 84>>, 4>>,
    <<<<103, 108, 71, 101, 116, 78, 97, 109, 101, 100, 80, 114, 111, 103, 114, 97, 109, 76, 111, 99, 97, 108, 80, 97, 114, 97, 109, 101, 116, 101, 114, 102, 118, 69, 88, 84>>, 4>>,
    <<<<103, 108, 71, 101, 116, 78, 97, 109, 101, 100, 80, 114, 111, 103, 114, 97, 109, 83, 116, 114, 105, 110, 103, 69, 88, 84>>, 4>>,
    <<<<103, 108, 71, 101, 116, 78, 97, 109, 101, 100, 80, 114, 111, 103, 114, 97, 109, 105, 118, 69, 88, 84>>, 4>>,
    <<<<103, 108, 71, 101, 116, 78, 97, 109, 101, 100, 82, 101, 110, 100, 101, 114, 98, 117, 102, 102, 101, 114, 80, 97, 114, 97, 109, 101, 116, 101, 114, 105, 118, 69, 88, 84>>, 4>>,
    <<<<103, 108, 71, 101, 116, 78, 97, 109, 101, 100, 83, 116, 114, 105, 110, 103, 65, 82, 66>>, 4>>,
    <<<<103, 108, 71, 101, 116, 78, 97, 109, 101, 100, 83, 116, 114, 105, 110, 103, 105, 118, 65, 82, 66>>, 4>>,
    <<<<103, 108, 71, 101, 116, 79, 98, 106, 101, 99, 116, 66, 117, 102, 102, 101, 114, 102, 118, 65, 84, 73>>, 4>>,
    <<<<103, 108, 71, 101, 116, 79, 98, 106, 101, 99, 116, 66, 117, 102, 102, 101, 114, 105, 118, 65, 84, 73>>, 4>>,
    <<<<103, 108, 71, 101, 116, 79, 98, 106, 101, 99, 116, 76, 97, 98, 101, 108>>, 4>>,
    <<<<103, 108, 71, 101, 116, 79, 98, 106, 101, 99, 116, 80, 97, 114, 97, 109, 101, 116, 101, 114, 102, 118, 65, 82, 66>>, 4>>,
    <<<<103, 108, 71, 101, 116, 79, 98, 106, 101, 99, 116, 80, 97, 114, 97, 109, 101, 116, 101, 114, 105, 118, 65, 80, 80, 76, 69>>, 4>>,
    <<<<103, 108, 71, 101, 116, 79, 98, 106, 101, 99, 116, 80, 97, 114, 97, 109, 101, 116, 101, 114, 105, 118, 65, 82, 66>>, 4>>,
    <<<<103, 108, 71, 101, 116, 79, 98, 106, 101, 99, 116, 80, 116, 114, 76, 97, 98, 101, 108>>, 4>>,
    <<<<103, 108, 71, 101, 116, 79, 99, 99, 108, 117, 115, 105, 111, 110, 81, 117, 101, 114, 121, 105, 118, 78, 86>>, 4>>,
    <<<<103, 108, 71, 101, 116, 79, 99, 99, 108, 117, 115, 105, 111, 110, 81, 117, 101, 114, 121, 117, 105, 118, 78, 86>>, 4>>,
    <<<<103, 108, 71, 101, 116, 80, 101, 114, 102, 77, 111, 110, 105, 116, 111, 114, 67, 111, 117, 110, 116, 101, 114, 68, 97, 116, 97, 65, 77, 68>>, 4>>,
    <<<<103, 108, 71, 101, 116, 80, 101, 114, 102, 77, 111, 110, 105, 116, 111, 114, 67, 111, 117, 110, 116, 101, 114, 73, 110, 102, 111, 65, 77, 68>>, 4>>,
    <<<<103, 108, 71, 101, 116, 80, 101, 114, 102, 77, 111, 110, 105, 116, 111, 114, 67, 111, 117, 110, 116, 101, 114, 83, 116, 114, 105, 110, 103, 65, 77, 68>>, 4>>,
    <<<<103, 108, 71, 101, 116, 80, 101, 114, 102, 77, 111, 110, 105, 116, 111, 114, 67, 111, 117, 110, 116, 101, 114, 115, 65, 77, 68>>, 4>>,
    <<<<103, 108, 71, 101, 116, 80, 101, 114, 102, 77, 111, 110, 105, 116, 111, 114, 71, 114, 111, 117, 112, 83, 116, 114, 105, 110, 103, 65, 77, 68>>, 4>>,
    <<<<103, 108, 71, 101, 116, 80, 101, 114, 102, 77, 111, 110, 105, 116, 111, 114, 71, 114, 111, 117, 112, 115, 65, 77, 68>>, 4>>,
    <<<<103, 108, 71, 101, 116, 80, 105, 120, 101, 108, 84, 101, 120, 71, 101, 110, 80, 97, 114, 97, 109, 101, 116, 101, 114, 102, 118, 83, 71, 73, 83>>, 4>>,
    <<<<103, 108, 71, 101, 116, 80, 105, 120, 101, 108, 84, 101, 120, 71, 101, 110, 80, 97, 114, 97, 109, 101, 116, 101, 114, 105, 118, 83, 71, 73, 83>>, 4>>,
    <<<<103, 108, 71, 101, 116, 80, 111, 105, 110, 116, 101, 114, 73, 110, 100, 101, 120, 101, 100, 118, 69, 88, 84>>, 4>>,
    <<<<103, 108, 71, 101, 116, 80, 111, 105, 110, 116, 101, 114, 118>>, 4>>,
    <<<<103, 108, 71, 101, 116, 80, 111, 105, 110, 116, 101, 114, 118, 69, 88, 84>>, 4>>,
    <<<<103, 108, 71, 101, 116, 80, 114, 111, 103, 114, 97, 109, 66, 105, 110, 97, 114, 121>>, 4>>,
    <<<<103, 108, 71, 101, 116, 80, 114, 111, 103, 114, 97, 109, 69, 110, 118, 80, 97, 114, 97, 109, 101, 116, 101, 114, 73, 105, 118, 78, 86>>, 4>>,
    <<<<103, 108, 71, 101, 116, 80, 114, 111, 103, 114, 97, 109, 69, 110, 118, 80, 97, 114, 97, 109, 101, 116, 101, 114, 73, 117, 105, 118, 78, 86>>, 4>>,
    <<<<103, 108, 71, 101, 116, 80, 114, 111, 103, 114, 97, 109, 69, 110, 118, 80, 97, 114, 97, 109, 101, 116, 101, 114, 100, 118, 65, 82, 66>>, 4>>,
    <<<<103, 108, 71, 101, 116, 80, 114, 111, 103, 114, 97, 109, 69, 110, 118, 80, 97, 114, 97, 109, 101, 116, 101, 114, 102, 118, 65, 82, 66>>, 4>>,
    <<<<103, 108, 71, 101, 116, 80, 114, 111, 103, 114, 97, 109, 73, 110, 102, 111, 76, 111, 103>>, 4>>,
    <<<<103, 108, 71, 101, 116, 80, 114, 111, 103, 114, 97, 109, 73, 110, 116, 101, 114, 102, 97, 99, 101, 105, 118>>, 4>>,
    <<<<103, 108, 71, 101, 116, 80, 114, 111, 103, 114, 97, 109, 76, 111, 99, 97, 108, 80, 97, 114, 97, 109, 101, 116, 101, 114, 73, 105, 118, 78, 86>>, 4>>,
    <<<<103, 108, 71, 101, 116, 80, 114, 111, 103, 114, 97, 109, 76, 111, 99, 97, 108, 80, 97, 114, 97, 109, 101, 116, 101, 114, 73, 117, 105, 118, 78, 86>>, 4>>,
    <<<<103, 108, 71, 101, 116, 80, 114, 111, 103, 114, 97, 109, 76, 111, 99, 97, 108, 80, 97, 114, 97, 109, 101, 116, 101, 114, 100, 118, 65, 82, 66>>, 4>>,
    <<<<103, 108, 71, 101, 116, 80, 114, 111, 103, 114, 97, 109, 76, 111, 99, 97, 108, 80, 97, 114, 97, 109, 101, 116, 101, 114, 102, 118, 65, 82, 66>>, 4>>,
    <<<<103, 108, 71, 101, 116, 80, 114, 111, 103, 114, 97, 109, 78, 97, 109, 101, 100, 80, 97, 114, 97, 109, 101, 116, 101, 114, 100, 118, 78, 86>>, 4>>,
    <<<<103, 108, 71, 101, 116, 80, 114, 111, 103, 114, 97, 109, 78, 97, 109, 101, 100, 80, 97, 114, 97, 109, 101, 116, 101, 114, 102, 118, 78, 86>>, 4>>,
    <<<<103, 108, 71, 101, 116, 80, 114, 111, 103, 114, 97, 109, 80, 97, 114, 97, 109, 101, 116, 101, 114, 100, 118, 78, 86>>, 4>>,
    <<<<103, 108, 71, 101, 116, 80, 114, 111, 103, 114, 97, 109, 80, 97, 114, 97, 109, 101, 116, 101, 114, 102, 118, 78, 86>>, 4>>,
    <<<<103, 108, 71, 101, 116, 80, 114, 111, 103, 114, 97, 109, 80, 105, 112, 101, 108, 105, 110, 101, 73, 110, 102, 111, 76, 111, 103>>, 4>>,
    <<<<103, 108, 71, 101, 116, 80, 114, 111, 103, 114, 97, 109, 80, 105, 112, 101, 108, 105, 110, 101, 105, 118>>, 4>>,
    <<<<103, 108, 71, 101, 116, 80, 114, 111, 103, 114, 97, 109, 82, 101, 115, 111, 117, 114, 99, 101, 73, 110, 100, 101, 120>>, 4>>,
    <<<<103, 108, 71, 101, 116, 80, 114, 111, 103, 114, 97, 109, 82, 101, 115, 111, 117, 114, 99, 101, 76, 111, 99, 97, 116, 105, 111, 110>>, 4>>,
    <<<<103, 108, 71, 101, 116, 80, 114, 111, 103, 114, 97, 109, 82, 101, 115, 111, 117, 114, 99, 101, 76, 111, 99, 97, 116, 105, 111, 110, 73, 110, 100, 101, 120>>, 4>>,
    <<<<103, 108, 71, 101, 116, 80, 114, 111, 103, 114, 97, 109, 82, 101, 115, 111, 117, 114, 99, 101, 78, 97, 109, 101>>, 4>>,
    <<<<103, 108, 71, 101, 116, 80, 114, 111, 103, 114, 97, 109, 82, 101, 115, 111, 117, 114, 99, 101, 105, 118>>, 4>>,
    <<<<103, 108, 71, 101, 116, 80, 114, 111, 103, 114, 97, 109, 83, 116, 97, 103, 101, 105, 118>>, 4>>,
    <<<<103, 108, 71, 101, 116, 80, 114, 111, 103, 114, 97, 109, 83, 116, 114, 105, 110, 103, 65, 82, 66>>, 4>>,
    <<<<103, 108, 71, 101, 116, 80, 114, 111, 103, 114, 97, 109, 83, 116, 114, 105, 110, 103, 78, 86>>, 4>>,
    <<<<103, 108, 71, 101, 116, 80, 114, 111, 103, 114, 97, 109, 83, 117, 98, 114, 111, 117, 116, 105, 110, 101, 80, 97, 114, 97, 109, 101, 116, 101, 114, 117, 105, 118, 78, 86>>, 4>>,
    <<<<103, 108, 71, 101, 116, 80, 114, 111, 103, 114, 97, 109, 105, 118>>, 4>>,
    <<<<103, 108, 71, 101, 116, 80, 114, 111, 103, 114, 97, 109, 105, 118, 65, 82, 66>>, 4>>,
    <<<<103, 108, 71, 101, 116, 80, 114, 111, 103, 114, 97, 109, 105, 118, 78, 86>>, 4>>,
    <<<<103, 108, 71, 101, 116, 81, 117, 101, 114, 121, 73, 110, 100, 101, 120, 101, 100, 105, 118>>, 4>>,
    <<<<103, 108, 71, 101, 116, 81, 117, 101, 114, 121, 105, 118>>, 4>>,
    <<<<103, 108, 71, 101, 116, 81, 117, 101, 114, 121, 105, 118, 65, 82, 66>>, 4>>,
    <<<<103, 108, 71, 101, 116, 82, 101, 110, 100, 101, 114, 98, 117, 102, 102, 101, 114, 80, 97, 114, 97, 109, 101, 116, 101, 114, 105, 118>>, 4>>,
    <<<<103, 108, 71, 101, 116, 82, 101, 110, 100, 101, 114, 98, 117, 102, 102, 101, 114, 80, 97, 114, 97, 109, 101, 116, 101, 114, 105, 118, 69, 88, 84>>, 4>>,
    <<<<103, 108, 71, 101, 116, 83, 97, 109, 112, 108, 101, 114, 80, 97, 114, 97, 109, 101, 116, 101, 114, 73, 105, 118>>, 4>>,
    <<<<103, 108, 71, 101, 116, 83, 97, 109, 112, 108, 101, 114, 80, 97, 114, 97, 109, 101, 116, 101, 114, 73, 117, 105, 118>>, 4>>,
    <<<<103, 108, 71, 101, 116, 83, 97, 109, 112, 108, 101, 114, 80, 97, 114, 97, 109, 101, 116, 101, 114, 102, 118>>, 4>>,
    <<<<103, 108, 71, 101, 116, 83, 97, 109, 112, 108, 101, 114, 80, 97, 114, 97, 109, 101, 116, 101, 114, 105, 118>>, 4>>,
    <<<<103, 108, 71, 101, 116, 83, 101, 112, 97, 114, 97, 98, 108, 101, 70, 105, 108, 116, 101, 114, 69, 88, 84>>, 4>>,
    <<<<103, 108, 71, 101, 116, 83, 104, 97, 100, 101, 114, 73, 110, 102, 111, 76, 111, 103>>, 4>>,
    <<<<103, 108, 71, 101, 116, 83, 104, 97, 100, 101, 114, 80, 114, 101, 99, 105, 115, 105, 111, 110, 70, 111, 114, 109, 97, 116>>, 4>>,
    <<<<103, 108, 71, 101, 116, 83, 104, 97, 100, 101, 114, 83, 111, 117, 114, 99, 101>>, 4>>,
    <<<<103, 108, 71, 101, 116, 83, 104, 97, 100, 101, 114, 83, 111, 117, 114, 99, 101, 65, 82, 66>>, 4>>,
    <<<<103, 108, 71, 101, 116, 83, 104, 97, 100, 101, 114, 105, 118>>, 4>>,
    <<<<103, 108, 71, 101, 116, 83, 104, 97, 114, 112, 101, 110, 84, 101, 120, 70, 117, 110, 99, 83, 71, 73, 83>>, 4>>,
    <<<<103, 108, 71, 101, 116, 83, 116, 114, 105, 110, 103>>, 132>>,
    <<<<103, 108, 71, 101, 116, 83, 116, 114, 105, 110, 103, 105>>, 132>>,
    <<<<103, 108, 71, 101, 116, 83, 121, 110, 99, 105, 118>>, 4>>,
    <<<<103, 108, 71, 101, 116, 84, 101, 120, 66, 117, 109, 112, 80, 97, 114, 97, 109, 101, 116, 101, 114, 102, 118, 65, 84, 73>>, 4>>,
    <<<<103, 108, 71, 101, 116, 84, 101, 120, 66, 117, 109, 112, 80, 97, 114, 97, 109, 101, 116, 101, 114, 105, 118, 65, 84, 73>>, 4>>,
    <<<<103, 108, 71, 101, 116, 84, 101, 120, 69, 110, 118, 102, 118>>, 4>>,
    <<<<103, 108, 71, 101, 116, 84, 101, 120, 69, 110, 118, 105, 118>>, 4>>,
    <<<<103, 108, 71, 101, 116, 84, 101, 120, 70, 105, 108, 116, 101, 114, 70, 117, 110, 99, 83, 71, 73, 83>>, 4>>,
    <<<<103, 108, 71, 101, 116, 84, 101, 120, 71, 101, 110, 100, 118>>, 4>>,
    <<<<103, 108, 71, 101, 116, 84, 101, 120, 71, 101, 110, 102, 118>>, 4>>,
    <<<<103, 108, 71, 101, 116, 84, 101, 120, 71, 101, 110, 105, 118>>, 4>>,
    <<<<103, 108, 71, 101, 116, 84, 114, 97, 99, 107, 77, 97, 116, 114, 105, 120, 105, 118, 78, 86>>, 4>>,
    <<<<103, 108, 71, 101, 116, 84, 114, 97, 110, 115, 102, 111, 114, 109, 70, 101, 101, 100, 98, 97, 99, 107, 86, 97, 114, 121, 105, 110, 103>>, 4>>,
    <<<<103, 108, 71, 101, 116, 84, 114, 97, 110, 115, 102, 111, 114, 109, 70, 101, 101, 100, 98, 97, 99, 107, 86, 97, 114, 121, 105, 110, 103, 69, 88, 84>>, 4>>,
    <<<<103, 108, 71, 101, 116, 84, 114, 97, 110, 115, 102, 111, 114, 109, 70, 101, 101, 100, 98, 97, 99, 107, 86, 97, 114, 121, 105, 110, 103, 78, 86>>, 4>>,
    <<<<103, 108, 71, 101, 116, 85, 110, 105, 102, 111, 114, 109, 73, 110, 100, 105, 99, 101, 115>>, 4>>,
    <<<<103, 108, 71, 101, 116, 85, 110, 105, 102, 111, 114, 109, 83, 117, 98, 114, 111, 117, 116, 105, 110, 101, 117, 105, 118>>, 4>>,
    <<<<103, 108, 71, 101, 116, 85, 110, 105, 102, 111, 114, 109, 100, 118>>, 4>>,
    <<<<103, 108, 71, 101, 116, 85, 110, 105, 102, 111, 114, 109, 102, 118>>, 4>>,
    <<<<103, 108, 71, 101, 116, 85, 110, 105, 102, 111, 114, 109, 102, 118, 65, 82, 66>>, 4>>,
    <<<<103, 108, 71, 101, 116, 85, 110, 105, 102, 111, 114, 109, 105, 54, 52, 118, 78, 86>>, 4>>,
    <<<<103, 108, 71, 101, 116, 85, 110, 105, 102, 111, 114, 109, 105, 118>>, 4>>,
    <<<<103, 108, 71, 101, 116, 85, 110, 105, 102, 111, 114, 109, 105, 118, 65, 82, 66>>, 4>>,
    <<<<103, 108, 71, 101, 116, 85, 110, 105, 102, 111, 114, 109, 117, 105, 54, 52, 118, 78, 86>>, 4>>,
    <<<<103, 108, 71, 101, 116, 85, 110, 105, 102, 111, 114, 109, 117, 105, 118>>, 4>>,
    <<<<103, 108, 71, 101, 116, 85, 110, 105, 102, 111, 114, 109, 117, 105, 118, 69, 88, 84>>, 4>>,
    <<<<103, 108, 71, 101, 116, 86, 97, 114, 105, 97, 110, 116, 65, 114, 114, 97, 121, 79, 98, 106, 101, 99, 116, 102, 118, 65, 84, 73>>, 4>>,
    <<<<103, 108, 71, 101, 116, 86, 97, 114, 105, 97, 110, 116, 65, 114, 114, 97, 121, 79, 98, 106, 101, 99, 116, 105, 118, 65, 84, 73>>, 4>>,
    <<<<103, 108, 71, 101, 116, 86, 97, 114, 105, 97, 110, 116, 66, 111, 111, 108, 101, 97, 110, 118, 69, 88, 84>>, 4>>,
    <<<<103, 108, 71, 101, 116, 86, 97, 114, 105, 97, 110, 116, 70, 108, 111, 97, 116, 118, 69, 88, 84>>, 4>>,
    <<<<103, 108, 71, 101, 116, 86, 97, 114, 105, 97, 110, 116, 73, 110, 116, 101, 103, 101, 114, 118, 69, 88, 84>>, 4>>,
    <<<<103, 108, 71, 101, 116, 86, 97, 114, 105, 97, 110, 116, 80, 111, 105, 110, 116, 101, 114, 118, 69, 88, 84>>, 4>>,
    <<<<103, 108, 71, 101, 116, 86, 101, 114, 116, 101, 120, 65, 114, 114, 97, 121, 73, 110, 116, 101, 103, 101, 114, 105, 95, 118, 69, 88, 84>>, 4>>,
    <<<<103, 108, 71, 101, 116, 86, 101, 114, 116, 101, 120, 65, 114, 114, 97, 121, 73, 110, 116, 101, 103, 101, 114, 118, 69, 88, 84>>, 4>>,
    <<<<103, 108, 71, 101, 116, 86, 101, 114, 116, 101, 120, 65, 114, 114, 97, 121, 80, 111, 105, 110, 116, 101, 114, 105, 95, 118, 69, 88, 84>>, 4>>,
    <<<<103, 108, 71, 101, 116, 86, 101, 114, 116, 101, 120, 65, 114, 114, 97, 121, 80, 111, 105, 110, 116, 101, 114, 118, 69, 88, 84>>, 4>>,
    <<<<103, 108, 71, 101, 116, 86, 105, 100, 101, 111, 67, 97, 112, 116, 117, 114, 101, 83, 116, 114, 101, 97, 109, 100, 118, 78, 86>>, 4>>,
    <<<<103, 108, 71, 101, 116, 86, 105, 100, 101, 111, 67, 97, 112, 116, 117, 114, 101, 83, 116, 114, 101, 97, 109, 102, 118, 78, 86>>, 4>>,
    <<<<103, 108, 71, 101, 116, 86, 105, 100, 101, 111, 67, 97, 112, 116, 117, 114, 101, 83, 116, 114, 101, 97, 109, 105, 118, 78, 86>>, 4>>,
    <<<<103, 108, 71, 101, 116, 86, 105, 100, 101, 111, 67, 97, 112, 116, 117, 114, 101, 105, 118, 78, 86>>, 4>>,
    <<<<103, 108, 71, 101, 116, 86, 105, 100, 101, 111, 105, 54, 52, 118, 78, 86>>, 4>>,
    <<<<103, 108, 71, 101, 116, 86, 105, 100, 101, 111, 105, 118, 78, 86>>, 4>>,
    <<<<103, 108, 71, 101, 116, 86, 105, 100, 101, 111, 117, 105, 54, 52, 118, 78, 86>>, 4>>,
    <<<<103, 108, 71, 101, 116, 86, 105, 100, 101, 111, 117, 105, 118, 78, 86>>, 4>>,
    <<<<103, 108, 71, 101, 116, 110, 77, 97, 112, 100, 118, 65, 82, 66>>, 4>>,
    <<<<103, 108, 71, 101, 116, 110, 77, 97, 112, 102, 118, 65, 82, 66>>, 4>>,
    <<<<103, 108, 71, 101, 116, 110, 77, 97, 112, 105, 118, 65, 82, 66>>, 4>>,
    <<<<103, 108, 71, 101, 116, 110, 85, 110, 105, 102, 111, 114, 109, 100, 118, 65, 82, 66>>, 4>>,
    <<<<103, 108, 71, 101, 116, 110, 85, 110, 105, 102, 111, 114, 109, 102, 118, 65, 82, 66>>, 4>>,
    <<<<103, 108, 71, 101, 116, 110, 85, 110, 105, 102, 111, 114, 109, 105, 118, 65, 82, 66>>, 4>>,
    <<<<103, 108, 71, 101, 116, 110, 85, 110, 105, 102, 111, 114, 109, 117, 105, 118, 65, 82, 66>>, 4>>,
    <<<<103, 108, 73, 110, 115, 101, 114, 116, 69, 118, 101, 110, 116, 77, 97, 114, 107, 101, 114, 69, 88, 84>>, 260>>,
    <<<<103, 108, 73, 115, 65, 115, 121, 110, 99, 77, 97, 114, 107, 101, 114, 83, 71, 73, 88>>, 132>>,
    <<<<103, 108, 73, 115, 66, 117, 102, 102, 101, 114>>, 132>>,
    <<<<103, 108, 73, 115, 66, 117, 102, 102, 101, 114, 65, 82, 66>>, 132>>,
    <<<<103, 108, 73, 115, 66, 117, 102, 102, 101, 114, 82, 101, 115, 105, 100, 101, 110, 116, 78, 86>>, 132>>,
    <<<<103, 108, 73, 115, 69, 110, 97, 98, 108, 101, 100>>, 132>>,
    <<<<103, 108, 73, 115, 69, 110, 97, 98, 108, 101, 100, 73, 110, 100, 101, 120, 101, 100, 69, 88, 84>>, 132>>,
    <<<<103, 108, 73, 115, 69, 110, 97, 98, 108, 101, 100, 105>>, 132>>,
    <<<<103, 108, 73, 115, 70, 101, 110, 99, 101, 65, 80, 80, 76, 69>>, 132>>,
    <<<<103, 108, 73, 115, 70, 101, 110, 99, 101, 78, 86>>, 132>>,
    <<<<103, 108, 73, 115, 70, 114, 97, 109, 101, 98, 117, 102, 102, 101, 114>>, 132>>,
    <<<<103, 108, 73, 115, 70, 114, 97, 109, 101, 98, 117, 102, 102, 101, 114, 69, 88, 84>>, 132>>,
    <<<<103, 108, 73, 115, 76, 105, 115, 116>>, 132>>,
    <<<<103, 108, 73, 115, 78, 97, 109, 101, 65, 77, 68>>, 132>>,
    <<<<103, 108, 73, 115, 78, 97, 109, 101, 100, 66, 117, 102, 102, 101, 114, 82, 101, 115, 105, 100, 101, 110, 116, 78, 86>>, 132>>,
    <<<<103, 108, 73, 115, 78, 97, 109, 101, 100, 83, 116, 114, 105, 110, 103, 65, 82, 66>>, 132>>,
    <<<<103, 108, 73, 115, 79, 98, 106, 101, 99, 116, 66, 117, 102, 102, 101, 114, 65, 84, 73>>, 132>>,
    <<<<103, 108, 73, 115, 79, 99, 99, 108, 117, 115, 105, 111, 110, 81, 117, 101, 114, 121, 78, 86>>, 132>>,
    <<<<103, 108, 73, 115, 80, 114, 111, 103, 114, 97, 109>>, 132>>,
    <<<<103, 108, 73, 115, 80, 114, 111, 103, 114, 97, 109, 65, 82, 66>>, 132>>,
    <<<<103, 108, 73, 115, 80, 114, 111, 103, 114, 97, 109, 78, 86>>, 132>>,
    <<<<103, 108, 73, 115, 80, 114, 111, 103, 114, 97, 109, 80, 105, 112, 101, 108, 105, 110, 101>>, 132>>,
    <<<<103, 108, 73, 115, 81, 117, 101, 114, 121>>, 132>>,
    <<<<103, 108, 73, 115, 81, 117, 101, 114, 121, 65, 82, 66>>, 132>>,
    <<<<103, 108, 73, 115, 82, 101, 110, 100, 101, 114, 98, 117, 102, 102, 101, 114>>, 132>>,
    <<<<103, 108, 73, 115, 82, 101, 110, 100, 101, 114, 98, 117, 102, 102, 101, 114, 69, 88, 84>>, 132>>,
    <<<<103, 108, 73, 115, 83, 97, 109, 112, 108, 101, 114>>, 132>>,
    <<<<103, 108, 73, 115, 83, 104, 97, 100, 101, 114>>, 132>>,
    <<<<103, 108, 73, 115, 83, 121, 110, 99>>, 132>>,
    <<<<103, 108, 73, 115, 84, 101, 120, 116, 117, 114, 101>>, 132>>,
    <<<<103, 108, 73, 115, 84, 101, 120, 116, 117, 114, 101, 69, 88, 84>>, 132>>,
    <<<<103, 108, 73, 115, 84, 114, 97, 110, 115, 102, 111, 114, 109, 70, 101, 101, 100, 98, 97, 99, 107>>, 132>>,
    <<<<103, 108, 73, 115, 84, 114, 97, 110, 115, 102, 111, 114, 109, 70, 101, 101, 100, 98, 97, 99, 107, 78, 86>>, 132>>,
    <<<<103, 108, 73, 115, 86, 97, 114, 105, 97, 110, 116, 69, 110, 97, 98, 108, 101, 100, 69, 88, 84>>, 132>>,
    <<<<103, 108, 73, 115, 86, 101, 114, 116, 101, 120, 65, 114, 114, 97, 121>>, 132>>,
    <<<<103, 108, 73, 115, 86, 101, 114, 116, 101, 120, 65, 114, 114, 97, 121, 65, 80, 80, 76, 69>>, 132>>,
    <<<<103, 108, 73, 115, 86, 101, 114, 116, 101, 120, 65, 116, 116, 114, 105, 98, 69, 110, 97, 98, 108, 101, 100, 65, 80, 80, 76, 69>>, 132>>,
    <<<<103, 108, 79, 98, 106, 101, 99, 116, 76, 97, 98, 101, 108>>, 4>>,
    <<<<103, 108, 79, 98, 106, 101, 99, 116, 76, 97, 98, 101, 108, 75, 72, 82>>, 4>>,
    <<<<103, 108, 79, 98, 106, 101, 99, 116, 80, 116, 114, 76, 97, 98, 101, 108>>, 4>>,
    <<<<103, 108, 79, 98, 106, 101, 99, 116, 80, 116, 114, 76, 97, 98, 101, 108, 75, 72, 82>>, 4>>,
    <<<<103, 108, 80, 111, 112, 68, 101, 98, 117, 103, 71, 114, 111, 117, 112>>, 1280>>,
    <<<<103, 108, 80, 111, 112, 68, 101, 98, 117, 103, 71, 114, 111, 117, 112, 75, 72, 82>>, 1280>>,
    <<<<103, 108, 80, 111, 112, 71, 114, 111, 117, 112, 77, 97, 114, 107, 101, 114, 69, 88, 84>>, 1280>>,
    <<<<103, 108, 80, 117, 115, 104, 68, 101, 98, 117, 103, 71, 114, 111, 117, 112>>, 768>>,
    <<<<103, 108, 80, 117, 115, 104, 68, 101, 98, 117, 103, 71, 114, 111, 117, 112, 75, 72, 82>>, 768>>,
    <<<<103, 108, 80, 117, 115, 104, 71, 114, 111, 117, 112, 77, 97, 114, 107, 101, 114, 69, 88, 84>>, 768>>,
    <<<<103, 108, 83, 116, 114, 105, 110, 103, 77, 97, 114, 107, 101, 114, 71, 82, 69, 77, 69, 68, 89>>, 256>>,
    <<<<103, 108, 88, 71, 101, 116, 67, 108, 105, 101, 110, 116, 83, 116, 114, 105, 110, 103>>, 132>>,
    <<<<103, 108, 88, 71, 101, 116, 67, 111, 110, 102, 105, 103>>, 132>>,
    <<<<103, 108, 88, 71, 101, 116, 67, 117, 114, 114, 101, 110, 116, 67, 111, 110, 116, 101, 120, 116>>, 132>>,
    <<<<103, 108, 88, 71, 101, 116, 67, 117, 114, 114, 101, 110, 116, 68, 105, 115, 112, 108, 97, 121>>, 132>>,
    <<<<103, 108, 88, 71, 101, 116, 67, 117, 114, 114, 101, 110, 116, 68, 105, 115, 112, 108, 97, 121, 69, 88, 84>>, 132>>,
    <<<<103, 108, 88, 71, 101, 116, 67, 117, 114, 114, 101, 110, 116, 68, 114, 97, 119, 97, 98, 108, 101>>, 132>>,
    <<<<103, 108, 88, 71, 101, 116, 67, 117, 114, 114, 101, 110, 116, 82, 101, 97, 100, 68, 114, 97, 119, 97, 98, 108, 101>>, 132>>,
    <<<<103, 108, 88, 71, 101, 116, 67, 117, 114, 114, 101, 110, 116, 82, 101, 97, 100, 68, 114, 97, 119, 97, 98, 108, 101, 83, 71, 73>>, 132>>,
    <<<<103, 108, 88, 71, 101, 116, 70, 66, 67, 111, 110, 102, 105, 103, 65, 116, 116, 114, 105, 98>>, 128>>,
    <<<<103, 108, 88, 71, 101, 116, 70, 66, 67, 111, 110, 102, 105, 103, 65, 116, 116, 114, 105, 98, 83, 71, 73, 88>>, 128>>,
    <<<<103, 108, 88, 71, 101, 116, 80, 114, 111, 99, 65, 100, 100, 114, 101, 115, 115>>, 132>>,
    <<<<103, 108, 88, 71, 101, 116, 80, 114, 111, 99, 65, 100, 100, 114, 101, 115, 115, 65, 82, 66>>, 132>>,
    <<<<103, 108, 88, 73, 115, 68, 105, 114, 101, 99, 116>>, 132>>,
    <<<<103, 108, 88, 81, 117, 101, 114, 121, 69, 120, 116, 101, 110, 115, 105, 111, 110>>, 132>>,
    <<<<103, 108, 88, 81, 117, 101, 114, 121, 69, 120, 116, 101, 110, 115, 105, 111, 110, 115, 83, 116, 114, 105, 110, 103>>, 132>>,
    <<<<103, 108, 88, 81, 117, 101, 114, 121, 86, 101, 114, 115, 105, 111, 110>>, 132>>,
    <<<<103, 108, 88, 83, 119, 97, 112, 66, 117, 102, 102, 101, 114, 115>>, 48>>,
    <<<<103, 108, 88, 83, 119, 97, 112, 66, 117, 102, 102, 101, 114, 115, 77, 115, 99, 79, 77, 76>>, 48>>,
    <<<<119, 103, 108, 68, 101, 115, 99, 114, 105, 98, 101, 80, 105, 120, 101, 108, 70, 111, 114, 109, 97, 116>>, 132>>,
    <<<<119, 103, 108, 71, 101, 116, 67, 117, 114, 114, 101, 110, 116, 67, 111, 110, 116, 101, 120, 116>>, 132>>,
    <<<<119, 103, 108, 71, 101, 116, 67, 117, 114, 114, 101, 110, 116, 68, 67>>, 132>>,
    <<<<119, 103, 108, 71, 101, 116, 68, 101, 102, 97, 117, 108, 116, 80, 114, 111, 99, 65, 100, 100, 114, 101, 115, 115>>, 132>>,
    <<<<119, 103, 108, 71, 101, 116, 69, 120, 116, 101, 110, 115, 105, 111, 110, 115, 83, 116, 114, 105, 110, 103, 65, 82, 66>>, 132>>,
    <<<<119, 103, 108, 71, 101, 116, 69, 120, 116, 101, 110, 115, 105, 111, 110, 115, 83, 116, 114, 105, 110, 103, 69, 88, 84>>, 132>>,
    <<<<119, 103, 108, 71, 101, 116, 80, 105, 120, 101, 108, 70, 111, 114, 109, 97, 116>>, 132>>,
    <<<<119, 103, 108, 71, 101, 116, 80, 105, 120, 101, 108, 70, 111, 114, 109, 97, 116, 65, 116, 116, 114, 105, 98, 105, 118, 65, 82, 66>>, 128>>,
    <<<<119, 103, 108, 71, 101, 116, 80, 105, 120, 101, 108, 70, 111, 114, 109, 97, 116, 65, 116, 116, 114, 105, 98, 105, 118, 69, 88, 84>>, 128>>,
    <<<<119, 103, 108, 71, 101, 116, 80, 114, 111, 99, 65, 100, 100, 114, 101, 115, 115>>, 132>>,
    <<<<119, 103, 108, 83, 119, 97, 112, 66, 117, 102, 102, 101, 114, 115>>, 48>>,
    <<<<119, 103, 108, 83, 119, 97, 112, 76, 97, 121, 101, 114, 66, 117, 102, 102, 101, 114, 115>>, 48>>,
    <<<<119, 103, 108, 83, 119, 97, 112, 77, 117, 108, 116, 105, 112, 108, 101, 66, 117, 102, 102, 101, 114, 115>>, 48>>
>>

\* CALL_FLAG_TABLE.len()
TableLen == 421

\* str::cmp: -1 (Less), 0 (Equal), 1 (Greater)
RECURSIVE StrCmp(_, _)
StrCmp(a, b) ==
    IF a = <<>> THEN (IF b = <<>> THEN 0 ELSE 0 - 1)
    ELSE IF b = <<>> THEN 1
    ELSE IF a[1] < b[1] THEN 0 - 1
    ELSE IF a[1] > b[1] THEN 1
    ELSE StrCmp(Tail(a), Tail(b))

RECURSIVE TableSearch(_, _, _, _)

\* the body of the while loop with the two directions exchanged
TableStepReversed(function_name, head, tail, half, current) ==
    IF StrCmp(current[1], function_name) = 0 THEN [err |-> "Ok", val |-> Some(current[2])]
    ELSE IF StrCmp(current[1], function_name) > 0
    THEN TableSearch(function_name, half + 1, tail, (tail + half + 1) \div 2)
    ELSE IF half = 0 THEN [err |-> "Panic", val |-> None]
    ELSE TableSearch(function_name, head, half - 1, (half - 1 + head) \div 2)

\* the body of the while loop of lookup_call_flag; tail = half - 1 is a usize
TableStep(function_name, head, tail, half, current) ==
    IF StrCmp(current[1], function_name) = 0 THEN [err |-> "Ok", val |-> Some(current[2])]
    ELSE IF StrCmp(current[1], function_name) < 0
    THEN TableSearch(function_name, half + 1, tail, (tail + half + 1) \div 2)
    ELSE IF half = 0 THEN [err |-> "Panic", val |-> None]
    ELSE TableSearch(function_name, head, half - 1, (half - 1 + head) \div 2)

\* current = CALL_FLAG_TABLE[half], bounds-checked, then the loop condition
TableSearch(function_name, head, tail, half) ==
    IF half >= TableLen THEN [err |-> "Panic", val |-> None]
    ELSE IF head > tail THEN [err |-> "Ok", val |-> None]
    ELSE TableStep(function_name, head, tail, half, CALL_FLAG_TABLE[half + 1])

\* the arms of the match of lookup_call_flag that return a flag
PatternFlag(function_name) ==
    IF StartsWith(function_name, <<103>>)
    THEN IF \/ IsFullMatch(GlReDraw, function_name)
            \/ IsFullMatch(GlReMiscDraw, function_name)
         THEN Some(CallFlagRender)
         ELSE IF IsPrefixMatch(GlReFbo, function_name) THEN Some(CallFlagSwapRendertarget)
         ELSE IF IsFullMatch(GlReGet, function_name) THEN Some(CallFlagNoSideEffects)
         ELSE None
    ELSE IF IsFullMatch(DxReDraw, function_name) THEN Some(CallFlagRender)
    ELSE IF IsFullMatch(DxReSrt, function_name) THEN Some(CallFlagSwapRendertarget)
    ELSE IF IsFullMatch(DxRePresent, function_name) THEN Some(CallFlagEndFrame)
    ELSE IF IsFullMatch(DxReCmql, function_name)
    THEN Some(BitOr(CallFlagNoSideEffects, CallFlagVerbose))
    ELSE None

LookupCallFlag(function_name) ==
    IF ~(StartsWith(function_name, <<103>>) \/ StartsWith(function_name, <<73>>))
    THEN [err |-> "Ok", val |-> None]
    ELSE IF IsSome(PatternFlag(function_name))
    THEN [err |-> "Ok", val |-> PatternFlag(function_name)]
    ELSE TableSearch(function_name, 0, TableLen - 1, TableLen \div 2)

-----------------------------------------------------------------------------
(* src/src/parser.rs: the signature dictionaries *)

\* Parser::lookup: grow the table with None up to index, then &mut map[index]
Lookup(map, index) ==
    IF index >= Len(map) THEN map \o Repeat(None, index + 1 - Len(map)) ELSE map

RECURSIVE ReadStrings(_, _, _)

\* push(read_string()?)
StringsNext(r, n, acc) ==
    IF r.err # "Ok" THEN r ELSE ReadStrings(r.self, n - 1, Append(acc, r.val))

\* for _ in 0..n { push(read_string()?) }
ReadStrings(self, n, acc) ==
    IF n = 0 THEN Ok(self, acc) ELSE StringsNext(ReadString(self), n, acc)

NamedBodyDone(name, num, names) ==
    IF names.err # "Ok" THEN names
    ELSE Ok(names.self, [name |-> name, num |-> num, names |-> names.val])

NamedBodyNames(name, num) ==
    IF num.err # "Ok" THEN num
    ELSE NamedBodyDone(name, num.val, ReadStrings(num.self, num.val, <<>>))

NamedBodyCount(name) ==
    IF name.err # "Ok" THEN name ELSE NamedBodyNames(name.val, ReadVarint(name.self))

\* the body of a function or struct signature: name, count, names
ReadNamedBody(self) == NamedBodyCount(ReadString(self))

RECURSIVE ReadEnumValues(_, _, _)

EnumValueDone(name, value, n, acc) ==
    IF value.err # "Ok" THEN value
    ELSE ReadEnumValues(value.self, n - 1, Append(acc, [name |-> name, value |-> value.val]))

EnumValueName(name, n, acc) ==
    IF name.err # "Ok" THEN name
    ELSE EnumValueDone(name.val, ReadSignedVarint(name.self), n, acc)

\* for each value { name = read_string()?; value = read_signed_varint()? }
ReadEnumValues(self, n, acc) ==
    IF n = 0 THEN Ok(self, acc) ELSE EnumValueName(ReadString(self), n, acc)

RECURSIVE ReadBitmaskFlags(_, _, _)

BitmaskFlagDone(name, value, n, acc) ==
    IF value.err # "Ok" THEN value
    ELSE ReadBitmaskFlags(value.self, n - 1, Append(acc, [name |-> name, value |-> value.val]))

BitmaskFlagName(name, n, acc) ==
    IF name.err # "Ok" THEN name
    ELSE BitmaskFlagDone(name.val, ReadVarint(name.self), n, acc)

\* for each flag { name = read_string()?; value = read_varint()? }
ReadBitmaskFlags(self, n, acc) ==
    IF n = 0 THEN Ok(self, acc) ELSE BitmaskFlagName(ReadString(self), n, acc)

EnumBodyValues(num) ==
    IF num.err # "Ok" THEN num ELSE ReadEnumValues(num.self, num.val, <<>>)

\* the body of an enum signature: count, (name, value) pairs
ReadEnumBody(self) == EnumBodyValues(ReadVarint(self))

BitmaskBodyFlags(num) ==
    IF num.err # "Ok" THEN num ELSE ReadBitmaskFlags(num.self, num.val, <<>>)

\* the body of a bitmask signature: count, (name, value) pairs
ReadBitmaskBody(self) == BitmaskBodyFlags(ReadVarint(self))

\* faulty variant of SeenBefore: the body of a cached signature is always read again
SeenBeforeAlways(self, sig) == TRUE

\* faulty variant of SeenBefore: the comparison is the other way round
SeenBeforeReversed(self, sig) == PositionLess(Unwrap(sig.state), GetCurrentOffset(self))

\* get_current_offset() < *val.state.as_ref().unwrap()
SeenBefore(self, sig) == PositionLess(GetCurrentOffset(self), Unwrap(sig.state))

\* the history entry of a cached signature whose body was read again
SkipEntry(sig, err) ==
    [ev |-> "SKIP", number |-> 0, thread_id |-> 0, sig |-> sig, call |-> <<>>,
     cached |-> TRUE, sig_bytes |-> 0, found |-> FALSE, ended |-> FALSE, cut |-> FALSE,
     err |-> err]

\* the body of a cached signature has been read again and is dropped
Skipped(skip, sig) ==
    IF skip.err # "Ok"
    THEN Err([skip.self EXCEPT !.log = Append(@, SkipEntry(sig, skip.err))], skip.err)
    ELSE Ok([skip.self EXCEPT !.log = Append(@, SkipEntry(sig, "Ok"))], sig)

\* the Some(val) arm of a signature parser; body reads the body again
CachedSig(self, sig, body) ==
    IF SeenBefore(self, sig) THEN Skipped(body, sig) ELSE Ok(self, sig)

\* the derived API of the first function name
DeriveApi(name) ==
    IF StartsWith(name, <<103, 108, 88>>) THEN "ApiGl"
    ELSE IF StartsWith(name, <<119, 103, 108>>) /\ Len(name) >= 4 /\ IsAsciiUppercase(name[4])
    THEN "ApiGl"
    ELSE IF StartsWith(name, <<67, 71, 76>>) THEN "ApiGl"
    ELSE IF StartsWith(name, <<101, 103, 108>>) /\ Len(name) >= 4 /\ IsAsciiUppercase(name[4])
    THEN "ApiEgl"
    ELSE IF \/ StartsWith(name, <<68, 105, 114, 101, 99, 116>>)
            \/ StartsWith(name, <<68, 51, 68>>)
            \/ StartsWith(name, <<67, 114, 101, 97, 116, 101>>)
    THEN "ApiDx"
    ELSE "ApiUnknown"

\* if self.api == API::ApiUnknown { self.api = ... }
WithApi(self, name) ==
    IF self.api = "ApiUnknown" THEN [self EXCEPT !.api = DeriveApi(name)] ELSE self

\* faulty variant of StoreFunctionSig: the signature is stored in the first slot
StoreFunctionSigAtZero(self, sig) == Ok([self EXCEPT !.functions[1] = Some(sig)], sig)

\* self.functions[id] = Some(sig.clone()); Ok(sig)
StoreFunctionSig(self, sig) == Ok([self EXCEPT !.functions[sig.id + 1] = Some(sig)], sig)

FunctionSigNew(self, id, body, flag) ==
    IF flag.err # "Ok" THEN Err(self, flag.err)
    ELSE StoreFunctionSig(WithApi(self, body.name),
             [id |-> id, name |-> body.name, num_args |-> body.num,
              arg_names |-> body.names, flag |-> flag.val,
              state |-> Some(GetCurrentOffset(self))])

FunctionSigBody(id, body) ==
    IF body.err # "Ok" THEN body
    ELSE FunctionSigNew(body.self, id, body.val, LookupCallFlag(body.val.name))

FunctionSigLookup(self, id) ==
    IF IsSome(self.functions[id + 1])
    THEN CachedSig(self, Unwrap(self.functions[id + 1]), ReadNamedBody(self))
    ELSE FunctionSigBody(id, ReadNamedBody(self))

FunctionSigOfId(id) ==
    IF id.err # "Ok" THEN id
    ELSE FunctionSigLookup([id.self EXCEPT !.functions = Lookup(@, id.val)], id.val)

ParseFunctionSig(self) == FunctionSigOfId(ReadVarint(self))

EnumSigNew(id, body) ==
    IF body.err # "Ok" THEN body
    ELSE LET sig == [id |-> id, num_values |-> Len(body.val), values |-> body.val,
                     state |-> Some(GetCurrentOffset(body.self))]
         IN  Ok([body.self EXCEPT !.enums[id + 1] = Some(sig)], sig)

EnumSigLookup(self, id) ==
    IF IsSome(self.enums[id + 1])
    THEN CachedSig(self, Unwrap(self.enums[id + 1]), ReadEnumBody(self))
    ELSE EnumSigNew(id, ReadEnumBody(self))

EnumSigOfId(id) ==
    IF id.err # "Ok" THEN id
    ELSE EnumSigLookup([id.self EXCEPT !.enums = Lookup(@, id.val)], id.val)

ParseEnumSig(self) == EnumSigOfId(ReadVarint(self))

StructSigNew(id, body) ==
    IF body.err # "Ok" THEN body
    ELSE LET sig == [id |-> id, name |-> body.val.name, num_members |-> body.val.num,
                     member_names |-> body.val.names,
                     state |-> Some(GetCurrentOffset(body.self))]
         IN  Ok([body.self EXCEPT !.structs[id + 1] = Some(sig)], sig)

StructSigLookup(self, id) ==
    IF IsSome(self.structs[id + 1])
    THEN CachedSig(self, Unwrap(self.structs[id + 1]), ReadNamedBody(self))
    ELSE StructSigNew(id, ReadNamedBody(self))

StructSigOfId(id) ==
    IF id.err # "Ok" THEN id
    ELSE StructSigLookup([id.self EXCEPT !.structs = Lookup(@, id.val)], id.val)

PaseStructSig(self) == StructSigOfId(ReadVarint(self))

BitmaskSigNew(id, body) ==
    IF body.err # "Ok" THEN body
    ELSE LET sig == [id |-> id, num_flags |-> Len(body.val), bitmask_flags |-> body.val,
                     state |-> Some(GetCurrentOffset(body.self))]
         IN  Ok([body.self EXCEPT !.bitmasks[id + 1] = Some(sig)], sig)

BitmaskSigLookup(self, id) ==
    IF IsSome(self.bitmasks[id + 1])
    THEN CachedSig(self, Unwrap(self.bitmasks[id + 1]), ReadBitmaskBody(self))
    ELSE BitmaskSigNew(id, ReadBitmaskBody(self))

BitmaskSigOfId(id) ==
    IF id.err # "Ok" THEN id
    ELSE BitmaskSigLookup([id.self EXCEPT !.bitmasks = Lookup(@, id.val)], id.val)

ParseBitmaskSig(self) == BitmaskSigOfId(ReadVarint(self))

-----------------------------------------------------------------------------
(* src/src/parser.rs: the value decoder *)

NoneValue == [type |-> "None"]

\* value: -(read_varint()? as i32)
SintValue(v) ==
    IF v.err # "Ok" THEN v ELSE Ok(v.self, [type |-> "I32", value |-> 0 - AsI32(v.val)])

\* value: read_varint()? as u32
UintValue(v) ==
    IF v.err # "Ok" THEN v ELSE Ok(v.self, [type |-> "U32", value |-> AsU32(v.val)])

\* value: read_type::<f32>()? or read_type::<f64>()?, kept as its bytes
FloatValue(v, type) ==
    IF v.err # "Ok" THEN v ELSE Ok(v.self, [type |-> type, value |-> v.val])

\* value: read_string(), an InsufficientData error read as the empty string
StringValue(v) ==
    IF v.err = "Ok" THEN Ok(v.self, [type |-> "VString", value |-> v.val])
    ELSE IF v.err = "InsufficientData" THEN Ok(v.self, [type |-> "VString", value |-> <<>>])
    ELSE v

\* Enum { sig, value } and Bitmask { sig, value }
SigValue(sig, v, type) ==
    IF v.err # "Ok" THEN v ELSE Ok(v.self, [type |-> type, sig |-> sig, value |-> v.val])

EnumValue(sig) ==
    IF sig.err # "Ok" THEN sig ELSE SigValue(sig.val, ReadSignedVarint(sig.self), "Enum")

BitmaskValue(sig) ==
    IF sig.err # "Ok" THEN sig ELSE SigValue(sig.val, ReadVarint(sig.self), "Bitmask")

ArrayOf(vs) ==
    IF vs.err # "Ok" THEN vs ELSE Ok(vs.self, [type |-> "Array", values |-> vs.val])

StructOf(sig, vs) ==
    IF vs.err # "Ok" THEN vs
    ELSE Ok(vs.self, [type |-> "Struct", sig |-> sig, members |-> vs.val])

BlobOf(size, b) ==
    IF b.err # "Ok" THEN b
    ELSE Ok(b.self, [type |-> "Blob", size |-> size, buffer |-> b.val, bound |-> FALSE])

BlobValue(size) ==
    IF size.err # "Ok" THEN size ELSE BlobOf(size.val, ReadBytes(size.self, size.val))

\* value: read_varint()? as *mut c_void
PointerValue(v) ==
    IF v.err # "Ok" THEN v ELSE Ok(v.self, [type |-> "Pointer", value |-> v.val])

RECURSIVE ParseValue(_)
RECURSIVE ParseValues(_, _, _)

\* faulty variant of ValuesNext: a value is put in front of the earlier ones
ValuesNextInFront(v, n, acc) ==
    IF v.err # "Ok" THEN v ELSE ParseValues(v.self, n - 1, <<v.val>> \o acc)

ValuesNext(v, n, acc) ==
    IF v.err # "Ok" THEN v ELSE ParseValues(v.self, n - 1, Append(acc, v.val))

\* for each element / member { parse_value()?.unwrap() }
ParseValues(self, n, acc) ==
    IF n = 0 THEN Ok(self, acc) ELSE ValuesNext(ParseValue(self), n, acc)

ArrayValue(len) ==
    IF len.err # "Ok" THEN len ELSE ArrayOf(ParseValues(len.self, len.val, <<>>))

StructValue(sig) ==
    IF sig.err # "Ok" THEN sig
    ELSE StructOf(sig.val, ParseValues(sig.self, sig.val.num_members, <<>>))

\* the match of parse_value on the type byte
ValueOfTag(t) ==
    IF t.err # "Ok" THEN Err(t.self, "InsufficientData")
    ELSE CASE t.val = TypeNull -> Ok(t.self, NoneValue)
           [] t.val = TypeFalse -> Ok(t.self, [type |-> "Bool", value |-> FALSE])
           [] t.val = TypeTrue -> Ok(t.self, [type |-> "Bool", value |-> TRUE])
           [] t.val = TypeSint -> SintValue(ReadVarint(t.self))
           [] t.val = TypeUint -> UintValue(ReadVarint(t.self))
           [] t.val = TypeFloat -> FloatValue(ReadBytes(t.self, 4), "Float")
           [] t.val = TypeDouble -> FloatValue(ReadBytes(t.self, 8), "Double")
           [] t.val = TypeString -> StringValue(ReadString(t.self))
           [] t.val = TypeEnum -> EnumValue(ParseEnumSig(t.self))
           [] t.val = TypeBitmask -> BitmaskValue(ParseBitmaskSig(t.self))
           [] t.val = TypeArray -> ArrayValue(ReadVarint(t.self))
           [] t.val = TypeStruct -> StructValue(PaseStructSig(t.self))
           [] t.val = TypeBlob -> BlobValue(ReadVarint(t.self))
           [] t.val = TypeOpaque -> PointerValue(ReadVarint(t.self))
           [] OTHER -> Err(t.self, "Panic")

ParseValue(self) == ValueOfTag(ReadU8(self))

-----------------------------------------------------------------------------
(* src/src/parser.rs: the integer arms of parse_value at the full width of *)
(* the varint.  A usize is kept as its 7-bit groups, lowest first; an i32   *)
(* as its sign and the groups of its magnitude.                             *)

\* bit k (from 0) of a usize
WideBit(w, k) == (w[k \div 7 + 1] \div (2 ^ (k % 7))) % 2

\* the usize with the bits BitAt(0), BitAt(1), ..
WideOfBits(BitAt(_)) ==
    [i \in 1..WideGroups |->
        LET B(j) == IF 7 * (i - 1) + j < UsizeBits THEN BitAt(7 * (i - 1) + j) ELSE 0
        IN  B(0) + 2 * B(1) + 4 * B(2) + 8 * B(3) + 16 * B(4) + 32 * B(5) + 64 * B(6)]

\* w as u32
WideAsU32(w) ==
    LET Low(k) == IF k < 32 THEN WideBit(w, k) ELSE 0
    IN  WideOfBits(Low)

\* 2^32 - w for a w of 32 bits, bit 31 set: the magnitude of w as i32
WideComplement32(w) ==
    LET Neg(k) == IF k >= 32 THEN 0
                  ELSE IF \A j \in 0..(k - 1) : WideBit(w, j) = 0 THEN WideBit(w, k)
                  ELSE 1 - WideBit(w, k)
    IN  WideOfBits(Neg)

\* w as i32
WideAsI32(w) ==
    IF WideBit(w, 31) = 0 THEN [neg |-> FALSE, value |-> WideAsU32(w)]
    ELSE [neg |-> TRUE, value |-> WideComplement32(WideAsU32(w))]

\* i32::MIN
WideI32Min == [neg |-> TRUE, value |-> WideAsU32([i \in 1..WideGroups |-> IF i = 5 THEN 8 ELSE 0])]

\* -(x) on an i32: with overflow checks the negation of i32::MIN panics,
\* without them it wraps to i32::MIN
WideNegate(self, x, overflow_checks) ==
    IF x = WideI32Min
    THEN IF overflow_checks THEN Err(self, "Panic")
         ELSE Ok(self, [type |-> "I32", neg |-> TRUE, value |-> x.value])
    ELSE Ok(self, [type |-> "I32", neg |-> ~x.neg /\ x.value # WideZero, value |-> x.value])

\* value: -(read_varint()? as i32)
SintValueWide(v, overflow_checks) ==
    IF v.err # "Ok" THEN v ELSE WideNegate(v.self, WideAsI32(v.val), overflow_checks)

\* value: read_varint()? as u32
UintValueWide(v) ==
    IF v.err # "Ok" THEN v
    ELSE Ok(v.self, [type |-> "U32", neg |-> FALSE, value |-> WideAsU32(v.val)])

\* the match of parse_value on the type byte, the integers at full width
ValueOfTagWide(t, overflow_checks) ==
    IF t.err # "Ok" THEN Err(t.self, "InsufficientData")
    ELSE IF t.val = TypeSint THEN SintValueWide(ReadVarintWide(t.self), overflow_checks)
    ELSE IF t.val = TypeUint THEN UintValueWide(ReadVarintWide(t.self))
    ELSE ValueOfTag(t)

ParseValueWide(self, overflow_checks) == ValueOfTagWide(ReadU8(self), overflow_checks)

-----------------------------------------------------------------------------
(* src/src/parser.rs: the call assembler *)

\* trace::Event discriminants
EventEnter == 0
EventLeave == 1

\* trace::CallDetail discriminants
CallEnd == 0
CallArg == 1
CallRet == 2
CallThread == 3
CallBacktrace == 4
CallFlags == 5

\* the bit parse_call sets on a call drained at the end of the stream
CallFlagIncomplete == 64

\* the bit a CALL_FLAGS detail with its low bit set adds
CallFlagFake == 1

\* FunctionSignature::default()
DefaultSig ==
    [id |-> 0, name |-> <<>>, num_args |-> 0, arg_names |-> <<>>, flag |-> None,
     state |-> None]

\* Call::default()
DefaultCall == [sig |-> DefaultSig, number |-> 0, ret |-> None, args |-> <<>>, thread_id |-> 0]

\* call.sig.flag = Some(call.sig.flag.unwrap_or(0) | bit)
SetFlag(call, bit) == [call EXCEPT !.sig.flag = Some(BitOr(UnwrapOr(@, 0), bit))]

\* faulty variant of GrowArgs: the list is resized to index + 1 in every case
GrowArgsAlways(args, index) ==
    IF index >= Len(args) THEN args \o Repeat(NoneValue, index + 1 - Len(args))
    ELSE SubSeq(args, 1, index + 1)

\* call.args.resize_with(index + 1, None) when index >= call.args.len()
GrowArgs(args, index) ==
    IF index >= Len(args) THEN args \o Repeat(NoneValue, index + 1 - Len(args)) ELSE args

\* call.args[index] = val
StoreArg(call, index, val) ==
    [call EXCEPT !.args = [GrowArgs(@, index) EXCEPT ![index + 1] = val]]

ArgStore(v, call, index) ==
    IF v.err # "Ok" THEN v ELSE Ok(v.self, StoreArg(call, index, v.val))

ArgValue(index, call) ==
    IF index.err # "Ok" THEN index ELSE ArgStore(ParseValue(index.self), call, index.val)

\* the result carries the call as val
ParseArg(self, call) == ArgValue(ReadVarint(self), call)

RECURSIVE ParseCallDetail(_, _)

\* CallArg => self.parse_arg(call)?
DetailArg(a) == IF a.err # "Ok" THEN a ELSE ParseCallDetail(a.self, a.val)

\* CallRet => call.ret = self.parse_value()?
DetailRet(v, call) ==
    IF v.err # "Ok" THEN v ELSE ParseCallDetail(v.self, [call EXCEPT !.ret = Some(v.val)])

\* faulty variant of DetailFlags: the flags of the call are replaced by bit 0
DetailFlagsReplace(flag, call) ==
    IF flag.err # "Ok" THEN flag
    ELSE ParseCallDetail(flag.self,
                         IF flag.val % 2 = 1 THEN [call EXCEPT !.sig.flag = Some(CallFlagFake)]
                         ELSE call)

\* CallFlags => the low bit of the varint marks the call
DetailFlags(flag, call) ==
    IF flag.err # "Ok" THEN flag
    ELSE ParseCallDetail(flag.self,
                         IF flag.val % 2 = 1 THEN SetFlag(call, CallFlagFake) ELSE call)

\* faulty variant of DetailsCutOff: a read error ends the details like CALL_END
DetailsCutOffEnds(self, call) == Ok(self, [call |-> call, ended |-> TRUE, cut |-> TRUE])

\* Err(_) => return Ok(false)
DetailsCutOff(self, call) == Ok(self, [call |-> call, ended |-> FALSE, cut |-> TRUE])

\* the match of parse_call_detail on the detail byte
DetailOfTag(t, call) ==
    IF t.err # "Ok" THEN DetailsCutOff(t.self, call)
    ELSE CASE t.val = CallEnd -> Ok(t.self, [call |-> call, ended |-> TRUE, cut |-> FALSE])
           [] t.val = CallArg -> DetailArg(ParseArg(t.self, call))
           [] t.val = CallRet -> DetailRet(ParseValue(t.self), call)
           [] t.val = CallBacktrace -> ParseCallDetail(t.self, call)
           [] t.val = CallFlags -> DetailFlags(ReadVarint(t.self), call)
           [] OTHER -> Err(t.self, "Panic")

\* val is [call, ended, cut]: ended is the bool parse_call_detail returns, cut
\* tells that it returned because a detail byte could not be read
ParseCallDetail(self, call) == DetailOfTag(ReadU8(self), call)

\* one entry of the history of events: what the reader made of an ENTER ("ENTER",
\* or "SIG" when its signature could not be read), of a LEAVE, or of the end of
\* the events when it drains a call ("END")
LogEntry(ev, call, sig, cached, sig_bytes, found, err) ==
    [ev |-> ev, number |-> call.number, thread_id |-> call.thread_id, sig |-> sig,
     call |-> call, cached |-> cached, sig_bytes |-> sig_bytes, found |-> found,
     ended |-> FALSE, cut |-> FALSE, err |-> err]

WithLog(self, entry) == [self EXCEPT !.log = Append(@, entry)]

\* the details of an event are read: the entry takes their outcome
Detailed(entry, d) ==
    IF d.err # "Ok" THEN [entry EXCEPT !.err = d.err]
    ELSE [entry EXCEPT !.call = d.val.call, !.ended = d.val.ended, !.cut = d.val.cut]

\* faulty variant of NextCallNumber: the counter is left as it is
NextCallNumberStuck(n) == n

\* self.call_number = self.call_number + 1
NextCallNumber(n) == n + 1

\* faulty variant of EnterDetail: the call is put at the front of the list
EnterDetailPushFront(entry, d) ==
    IF d.err # "Ok" THEN Err(WithLog(d.self, Detailed(entry, d)), d.err)
    ELSE IF d.val.ended
    THEN Ok(WithLog([d.self EXCEPT !.call_list = <<d.val.call>> \o @], Detailed(entry, d)),
            None)
    ELSE Ok(WithLog(d.self, Detailed(entry, d)), None)

\* if self.parse_call_detail(&mut call)? { self.call_list.push_back(call) }
EnterDetail(entry, d) ==
    IF d.err # "Ok" THEN Err(WithLog(d.self, Detailed(entry, d)), d.err)
    ELSE IF d.val.ended
    THEN Ok(WithLog([d.self EXCEPT !.call_list = Append(@, d.val.call)], Detailed(entry, d)),
            None)
    ELSE Ok(WithLog(d.self, Detailed(entry, d)), None)

\* let mut call = Call { sig, number: self.call_number, .. }
NewCall(sig, number, thread_id) ==
    [sig |-> sig, number |-> number, ret |-> None, args |-> <<>>,
     thread_id |-> AsU16(thread_id)]

\* the id of the signature was in the table before the ENTER
WasInterned(self, id) == id < Len(self.functions) /\ IsSome(self.functions[id + 1])

\* the Call of an ENTER, numbered, then its details
EnterCall(self, thread_id, sig) ==
    IF sig.err # "Ok"
    THEN Err(WithLog(sig.self,
                     LogEntry("SIG", NewCall(DefaultSig, sig.self.call_number, thread_id.val),
                              DefaultSig,
                              WasInterned(self, ReadVarint(thread_id.self).val),
                              sig.self.consumed - thread_id.self.consumed, FALSE, sig.err)),
             sig.err)
    ELSE EnterDetail(
             LogEntry("ENTER", NewCall(sig.val, sig.self.call_number, thread_id.val), sig.val,
                      WasInterned(self, sig.val.id),
                      sig.self.consumed - thread_id.self.consumed, FALSE, "Ok"),
             ParseCallDetail([sig.self EXCEPT !.call_number = NextCallNumber(@)],
                             NewCall(sig.val, sig.self.call_number, thread_id.val)))

EnterSig(self, thread_id) ==
    IF thread_id.err # "Ok" THEN thread_id
    ELSE EnterCall(self, thread_id, ParseFunctionSig(thread_id.self))

\* the EventEnter arm of parse_call; val is unused
ParseEnter(self) == EnterSig(self, ReadVarint(self))

\* faulty variant of RemoveAt: the call found stays in the list
RemoveAtKeeps(list, el) == list

\* VecDeque::remove(el), el < len
RemoveAt(list, el) == SubSeq(list, 1, el) \o SubSeq(list, el + 2, Len(list))

\* for el in 0..self.call_list.len() { if self.call_list[el].number == call_number
\*   { call = self.call_list.remove(el); } }: the range is fixed before the loop and
\* self.call_list[el] is bounds-checked
RECURSIVE FindCall(_, _, _, _, _)
FindCall(list, number, el, len, call) ==
    IF el >= len THEN [call_list |-> list, call |-> call, err |-> "Ok"]
    ELSE IF el >= Len(list) THEN [call_list |-> list, call |-> call, err |-> "Panic"]
    ELSE IF list[el + 1].number = number
    THEN FindCall(RemoveAt(list, el), number, el + 1, len, Some(list[el + 1]))
    ELSE FindCall(list, number, el + 1, len, call)

\* faulty variant of LeaveDetail: the call of a LEAVE is returned at CALL_END
\* whether or not it was found in the list
LeaveDetailEmitsUnmatched(entry, d) ==
    IF d.err # "Ok" THEN Err(WithLog(d.self, Detailed(entry, d)), d.err)
    ELSE IF d.val.ended THEN Ok(WithLog(d.self, Detailed(entry, d)), Some(d.val.call))
    ELSE Ok(WithLog(d.self, Detailed(entry, d)), None)

\* faulty variant of LeaveDetail: the call of a LEAVE is never returned
LeaveDetailDrops(entry, d) ==
    IF d.err # "Ok" THEN Err(WithLog(d.self, Detailed(entry, d)), d.err)
    ELSE Ok(WithLog(d.self, Detailed(entry, d)), None)

\* the two branches on call.is_none(): only a call that was found is returned
LeaveDetail(entry, d) ==
    IF d.err # "Ok" THEN Err(WithLog(d.self, Detailed(entry, d)), d.err)
    ELSE IF entry.found /\ d.val.ended
    THEN Ok(WithLog(d.self, Detailed(entry, d)), Some(d.val.call))
    ELSE Ok(WithLog(d.self, Detailed(entry, d)), None)

\* the history entry of a LEAVE that names number; f is what the search found
LeaveEntry(number, f) ==
    [LogEntry("LEAVE", UnwrapOr(f.call, DefaultCall), UnwrapOr(f.call, DefaultCall).sig,
              FALSE, 0, IsSome(f.call), f.err) EXCEPT !.number = number]

LeaveCall(self, number, f) ==
    IF f.err # "Ok"
    THEN Err(WithLog([self EXCEPT !.call_list = f.call_list], LeaveEntry(number, f)), f.err)
    ELSE LeaveDetail(LeaveEntry(number, f),
                     ParseCallDetail([self EXCEPT !.call_list = f.call_list],
                                     UnwrapOr(f.call, DefaultCall)))

LeaveFind(number) ==
    IF number.err # "Ok" THEN number
    ELSE LeaveCall(number.self, number.val,
                   FindCall(number.self.call_list, number.val, 0,
                            Len(number.self.call_list), None))

\* the EventLeave arm of parse_call; val is Some(call) when the arm returns
\* the call and None when the loop goes on
ParseLeave(self) == LeaveFind(ReadVarint(self))

\* the history entry of a call drained from the list
DrainEntry(call, err) == LogEntry("END", call, call.sig, FALSE, 0, FALSE, err)

\* faulty variant of EndOfEvents: the drained call is not marked incomplete
EndOfEventsUnflagged(self, err) ==
    IF self.call_list # <<>>
    THEN Ok(WithLog([self EXCEPT !.call_list = Tail(@)],
                    DrainEntry(Head(self.call_list), err)),
            Some(Head(self.call_list)))
    ELSE Err(self, "NoCallAvailable")

\* faulty variant of EndOfEvents: the newest call is drained first
EndOfEventsNewestFirst(self, err) ==
    IF self.call_list # <<>>
    THEN Ok(WithLog([self EXCEPT !.call_list = SubSeq(@, 1, Len(@) - 1)],
                    DrainEntry(self.call_list[Len(self.call_list)], err)),
            Some(SetFlag(self.call_list[Len(self.call_list)], CallFlagIncomplete)))
    ELSE Err(self, "NoCallAvailable")

\* faulty variant of EndOfEvents: the signature is shared with the function
\* table, whose entry is marked incomplete with the call
EndOfEventsMarksTable(self, err) ==
    IF self.call_list # <<>>
    THEN Ok(WithLog([self EXCEPT !.call_list = Tail(@),
                                 !.functions[Head(self.call_list).sig.id + 1] =
                                     Some(SetFlag(Head(self.call_list), CallFlagIncomplete).sig)],
                    DrainEntry(Head(self.call_list), err)),
            Some(SetFlag(Head(self.call_list), CallFlagIncomplete)))
    ELSE Err(self, "NoCallAvailable")

\* the Err(_) arm of parse_call: the event byte could not be read, with error err
EndOfEvents(self, err) ==
    IF self.call_list # <<>>
    THEN Ok(WithLog([self EXCEPT !.call_list = Tail(@)],
                    DrainEntry(Head(self.call_list), err)),
            Some(SetFlag(Head(self.call_list), CallFlagIncomplete)))
    ELSE Err(self, "NoCallAvailable")

RECURSIVE ParseCall(_)

AfterEnter(e) == IF e.err # "Ok" THEN e ELSE ParseCall(e.self)

AfterLeave(l) == IF l.err # "Ok" \/ IsSome(l.val) THEN l ELSE ParseCall(l.self)

\* the match of parse_call on the event byte
EventOfByte(ev) ==
    IF ev.err # "Ok" THEN EndOfEvents(ev.self, ev.err)
    ELSE IF ev.val = EventEnter THEN AfterEnter(ParseEnter(ev.self))
    ELSE IF ev.val = EventLeave THEN AfterLeave(ParseLeave(ev.self))
    ELSE Err(ev.self, "Panic")

\* val is Some(call)
ParseCall(self) == EventOfByte(ReadU8(self))

TRACE_VERSION == 6

VersionSemantic(v, m) ==
    IF m.err # "Ok" THEN m
    ELSE IF v < m.val THEN Err(m.self, "VersionMismatch")
    ELSE Ok(m.self, v)

VersionOf(v) ==
    IF v.err # "Ok" THEN v
    ELSE IF v.val > TRACE_VERSION THEN Err(v.self, "VersionMismatch")
    ELSE VersionSemantic(v.val, ReadVarint(v.self))

\* Parser::new after the file is open: the two version varints
CheckVersion(self) == VersionOf(ReadVarint(self))

\* faulty variant of MapInsert: the first value of a key is kept
MapInsertKeepsFirst(map, k, v) ==
    [x \in DOMAIN map \cup {k} |-> IF x \in DOMAIN map THEN map[x] ELSE v]

\* HashMap::insert on a map kept as a function from its keys
MapInsert(map, k, v) == [x \in DOMAIN map \cup {k} |-> IF x = k THEN v ELSE map[x]]

RECURSIVE ParseProperties(_)

PropertyValue(name, v) ==
    IF v.err = "Ok"
    THEN ParseProperties([v.self EXCEPT !.properties = MapInsert(@, name, v.val)])
    ELSE IF v.err = "InsufficientData"
    THEN ParseProperties([v.self EXCEPT !.properties = MapInsert(@, name, <<>>)])
    ELSE v

PropertyName(name) ==
    IF name.err = "InsufficientData" THEN Ok(name.self, None)
    ELSE IF name.err # "Ok" THEN name
    ELSE PropertyValue(name.val, ReadString(name.self))

ParseProperties(self) == PropertyName(ReadString(self))

-----------------------------------------------------------------------------
(* The retracer (src/src/retracer.rs): the callbacks registered by name    *)
(* and the cache of callbacks by function id.  A callback is a token; the  *)
(* operators return [self, err, val] with val the callback invoked.        *)

\* Retracer::init
RetracerInit == [map |-> <<>>, callbacks |-> <<>>]

\* BTreeMap::get(..).copied()
MapGet(map, k) == IF k \in DOMAIN map THEN Some(map[k]) ELSE None

\* add_calback: self.map.insert(entry.name, entry.callback)
AddCalback(self, entry) == [self EXCEPT !.map = MapInsert(@, entry.name, entry.callback)]

\* faulty variant of GrowCallbacks: resize(id, None)
GrowCallbacksToId(callbacks, id) ==
    IF id >= Len(callbacks) THEN callbacks \o Repeat(None, id - Len(callbacks)) ELSE callbacks

\* if id >= self.callbacks.len() { self.callbacks.resize(id + 1, None) }
GrowCallbacks(callbacks, id) ==
    IF id >= Len(callbacks) THEN callbacks \o Repeat(None, id + 1 - Len(callbacks)) ELSE callbacks

\* the callback retrace starts with: None after a resize, else callbacks[id]
CachedCallback(callbacks, id) == IF id >= Len(callbacks) THEN None ELSE callbacks[id + 1]

\* callback(call) and Ok(()), or Err(NoCallback)
Dispatch(self, callback) ==
    IF IsSome(callback) THEN Ok(self, callback) ELSE Err(self, "NoCallback")

\* if callback.is_none(): the callback of the name, stored at callbacks[id],
\* an index that is bounds-checked
LookupByName(self, call, callback) ==
    IF IsSome(callback) THEN Dispatch(self, callback)
    ELSE IF call.sig.id >= Len(self.callbacks) THEN Err(self, "Panic")
    ELSE Dispatch([self EXCEPT !.callbacks[call.sig.id + 1] = MapGet(self.map, call.sig.name)],
                  MapGet(self.map, call.sig.name))

\* Retracer::retrace(call)
Retrace(self, call) ==
    LookupByName([self EXCEPT !.callbacks = GrowCallbacks(@, call.sig.id)], call,
                 CachedCallback(self.callbacks, call.sig.id))

-----------------------------------------------------------------------------
(* The region map (src/src/region.rs): one RefCell around a BTreeMap from  *)
(* a trace address to a Region.  The cell is [borrowed, map]; an operator  *)
(* returns [self, err, val] with self the cell it leaves, every guard      *)
(* dropped, also when the operation unwinds from a panic.                  *)

\* REGION_MAP = Some(RefCell::new(BTreeMap::new()))
RegionMapInit == [borrowed |-> FALSE, map |-> <<>>]

\* Region::new(buffer, size)
RegionNew(buffer, size) ==
    [buffer |-> buffer, size |-> size, dimensions |-> 0, trace_pitch |-> 0, real_pitch |-> 0]

\* RefCell::borrow_mut: panics when the cell is borrowed
BorrowMut(cell) ==
    IF cell.borrowed THEN Err(cell, "Panic") ELSE Ok([cell EXCEPT !.borrowed = TRUE], None)

\* BTreeMap::remove
MapRemove(map, k) == [x \in DOMAIN map \ {k} |-> map[x]]

\* contains((addr, region), address)
Contains(addr, region, address) == addr <= address /\ (addr + region.size) > address

\* the keys from the greatest down: the first whose region contains address
KeyOf(map, address) ==
    IF \E k \in DOMAIN map : Contains(k, map[k], address)
    THEN Some(CHOOSE k \in DOMAIN map :
                  /\ Contains(k, map[k], address)
                  /\ \A j \in DOMAIN map : Contains(j, map[j], address) => j <= k)
    ELSE None

\* lookup_region_key with the cell borrowed by guard
RegionKeyBorrowed(cell, address, guard) ==
    IF guard.err # "Ok" THEN Err(cell, "Panic")
    ELSE Ok(cell, KeyOf(cell.map, address))

\* lookup_region_key(address)
LookupRegionKey(cell, address) == RegionKeyBorrowed(cell, address, BorrowMut(cell))

\* add_region(address, buffer, size)
AddRegion(cell, address, buffer, size) ==
    IF address = 0 THEN Err(cell, "Panic")
    ELSE IF BorrowMut(cell).err # "Ok" THEN Err(cell, "Panic")
    ELSE Ok([cell EXCEPT !.map = MapInsert(@, address, RegionNew(buffer, size))], None)

\* del_region(address)
DelRegion(cell, address) ==
    IF BorrowMut(cell).err # "Ok" THEN Err(cell, "Panic")
    ELSE IF address \notin DOMAIN cell.map THEN Err(cell, "Panic")
    ELSE Ok([cell EXCEPT !.map = MapRemove(@, address)], None)

\* del_region_by_pointer(ptr): the least key whose buffer is ptr
DelRegionByPointer(cell, ptr) ==
    IF BorrowMut(cell).err # "Ok" THEN Err(cell, "Panic")
    ELSE IF ~\E k \in DOMAIN cell.map : cell.map[k].buffer = ptr THEN Err(cell, "Panic")
    ELSE Ok([cell EXCEPT !.map =
                MapRemove(@, CHOOSE k \in DOMAIN cell.map :
                                 /\ cell.map[k].buffer = ptr
                                 /\ \A j \in DOMAIN cell.map : cell.map[j].buffer = ptr => k <= j)],
            None)

\* set_region_pitch after lookup_region_key returned key
PitchSet(cell, key, dims, trace_pitch, real_pitch) ==
    IF key.err # "Ok" \/ ~IsSome(key.val) THEN Err(cell, "Panic")
    ELSE Ok([cell EXCEPT !.map[Unwrap(key.val)] =
                [@ EXCEPT !.dimensions = dims, !.trace_pitch = trace_pitch,
                          !.real_pitch = real_pitch]],
            None)

\* set_region_pitch(address, dims, trace_pitch, real_pitch): the map is
\* borrowed, then lookup_region_key is called
SetRegionPitch(cell, address, dims, trace_pitch, real_pitch) ==
    IF BorrowMut(cell).err # "Ok" THEN Err(cell, "Panic")
    ELSE PitchSet(cell, LookupRegionKey(BorrowMut(cell).self, address),
                  dims, trace_pitch, real_pitch)

\* the Range lookup_address writes for the region of key
RangeOf(region, offset) ==
    [ptr |-> region.buffer + offset, len |-> region.size - offset, dims |-> region.dimensions,
     trace_pitch |-> region.trace_pitch, real_pitch |-> region.real_pitch]

\* lookup_address after lookup_region_key returned key
AddressLooked(cell, address, key) ==
    IF key.err # "Ok" THEN Err(cell, "Panic")
    ELSE IF IsSome(key.val)
    THEN IF address - Unwrap(key.val) < cell.map[Unwrap(key.val)].size
         THEN Ok(cell, RangeOf(cell.map[Unwrap(key.val)], address - Unwrap(key.val)))
         ELSE Err(cell, "Panic")
    ELSE Ok(cell, [ptr |-> address, len |-> 0, dims |-> 0, trace_pitch |-> 0, real_pitch |-> 0])

\* lookup_address(address, range): the map is borrowed, then lookup_region_key
\* is called
LookupAddress(cell, address) ==
    IF BorrowMut(cell).err # "Ok" THEN Err(cell, "Panic")
    ELSE AddressLooked(cell, address, LookupRegionKey(BorrowMut(cell).self, address))


-----------------------------------------------------------------------------
(* The reader state as one record, and the operations a caller runs *)

Self ==
    [snappy_file |-> snappy_file, file_idx |-> file_idx, cache |-> cache,
     cache_cap |-> cache_cap, cache_pos |-> cache_pos, chunk_offset |-> chunk_offset,
     version |-> version, api |-> api, properties |-> properties,
     call_number |-> call_number, call_list |-> call_list, functions |-> functions,
     enums |-> enums, structs |-> structs, bitmasks |-> bitmasks,
     consumed |-> consumed, log |-> log]

\* the reader state becomes s
Becomes(s) ==
    /\ snappy_file' = s.snappy_file
    /\ file_idx' = s.file_idx
    /\ cache' = s.cache
    /\ cache_cap' = s.cache_cap
    /\ cache_pos' = s.cache_pos
    /\ chunk_offset' = s.chunk_offset
    /\ version' = s.version
    /\ api' = s.api
    /\ properties' = s.properties
    /\ call_number' = s.call_number
    /\ call_list' = s.call_list
    /\ functions' = s.functions
    /\ enums' = s.enums
    /\ structs' = s.structs
    /\ bitmasks' = s.bitmasks
    /\ consumed' = s.consumed
    /\ log' = s.log
    /\ UNCHANGED <<retracer, REGION_MAP>>

Returned(op, r) == [op |-> op, err |-> r.err, val |-> r.val]

\* SnappyFile::new: read_exact(2 bytes).unwrap(), then the magic
SnappyFileNew(self) ==
    IF Len(self.snappy_file.magic) < Len(Magic) THEN Err(self, "Panic")
    ELSE IF self.snappy_file.magic = Magic THEN Ok(self, None)
    ELSE Err(self, "InvalidHeader")

Versioned(v) ==
    IF v.err # "Ok" THEN v ELSE Ok([v.self EXCEPT !.version = v.val], None)

Opened(f) == IF f.err # "Ok" THEN f ELSE Versioned(CheckVersion(f.self))

\* Parser::new(path)
ParserNew(self) == Opened(SnappyFileNew(self))

\* the caller after Parser::new returned r
NewDone(r) ==
    /\ Becomes(r.self)
    /\ result' = Returned("new", r)
    /\ pc' = IF r.err = "Ok" THEN "opened"
             ELSE IF r.err = "Panic" THEN "aborted" ELSE "failed"
    /\ UNCHANGED emitted

New ==
    /\ pc = "start"
    /\ NewDone(ParserNew(Self))

\* the caller after parse_properties returned r
PropertiesDone(r) ==
    /\ Becomes(r.self)
    /\ result' = Returned("parse_properties", r)
    /\ pc' = IF r.err = "Panic" THEN "aborted" ELSE "ready"
    /\ UNCHANGED emitted

Properties ==
    /\ pc = "opened"
    /\ PropertiesDone(ParseProperties(Self))

\* the caller after parse_call returned r
NextCallDone(r) ==
    /\ Becomes(r.self)
    /\ result' = Returned("parse_call", r)
    /\ pc' = IF r.err = "Panic" THEN "aborted" ELSE "ready"
    /\ emitted' = IF r.err = "Ok"
                  THEN Append(emitted, [call |-> Unwrap(r.val), at |-> Len(r.self.log)])
                  ELSE emitted

NextCall ==
    /\ pc = "ready"
    /\ NextCallDone(ParseCall(Self))

Next == New \/ Properties \/ NextCall

-----------------------------------------------------------------------------
(* The traces the reader is run on: what a trace writer puts on disk *)

RECURSIVE EncVarint(_)
EncVarint(v) == IF v < 128 THEN <<v>> ELSE <<128 + (v % 128)>> \o EncVarint(v \div 128)

EncString(s) == EncVarint(Len(s)) \o s

RECURSIVE EncStrings(_)
EncStrings(ss) == IF ss = <<>> THEN <<>> ELSE EncString(Head(ss)) \o EncStrings(Tail(ss))

\* the functions of the traced program: id -> name and argument names (f, glX
\* and glIsList)
FunctionDefs ==
    <<[name |-> <<102>>, arg_names |-> <<>>],
      [name |-> <<103, 108, 88>>, arg_names |-> <<<<97>>>>],
      [name |-> <<103, 108, 73, 115, 76, 105, 115, 116>>, arg_names |-> <<>>]>>

EncFunctionBody(fid) ==
    EncString(FunctionDefs[fid + 1].name) \o EncVarint(Len(FunctionDefs[fid + 1].arg_names))
        \o EncStrings(FunctionDefs[fid + 1].arg_names)

\* the value 1 of enum 0, whose only value is e = 1
EncEnumValue(fresh) ==
    <<TypeEnum>> \o EncVarint(0)
        \o (IF fresh THEN EncVarint(1) \o EncString(<<101>>) \o <<TypeUint>> \o EncVarint(1)
            ELSE <<>>)
        \o <<TypeUint>> \o EncVarint(1)

\* the value 1 of bitmask 0, whose only flag is b = 1
EncBitmaskValue(fresh) ==
    <<TypeBitmask>> \o EncVarint(0)
        \o (IF fresh THEN EncVarint(1) \o EncString(<<98>>) \o EncVarint(1) ELSE <<>>)
        \o EncVarint(1)

\* a value of struct 0, named s, whose only member m is a bitmask
EncStructValue(fresh, fresh_member) ==
    <<TypeStruct>> \o EncVarint(0)
        \o (IF fresh THEN EncString(<<115>>) \o EncVarint(1) \o EncString(<<109>>) ELSE <<>>)
        \o EncBitmaskValue(fresh_member)

EncArg(index, value) == <<CallArg>> \o EncVarint(index) \o value

EncRet(value) == <<CallRet>> \o value

\* an ENTER: thread, function (its body when fresh), an enum argument or none
EncEnter(e, defined) ==
    <<EventEnter>> \o EncVarint(e.tid) \o EncVarint(e.fid)
        \o (IF <<"function", e.fid>> \in defined THEN <<>> ELSE EncFunctionBody(e.fid))
        \o (IF e.arg = "enum" THEN EncArg(0, EncEnumValue(<<"enum", 0>> \notin defined))
            ELSE <<>>)
        \o <<CallEnd>>

\* a LEAVE: call number, a struct return value or none
EncLeave(e, defined) ==
    <<EventLeave>> \o EncVarint(e.number)
        \o (IF e.ret = "struct"
            THEN EncRet(EncStructValue(<<"struct", 0>> \notin defined,
                                       <<"bitmask", 0>> \notin defined))
            ELSE <<>>)
        \o <<CallEnd>>

\* the signatures an event leaves defined
Defines(e) ==
    IF e.ev = "ENTER"
    THEN {<<"function", e.fid>>} \cup (IF e.arg = "enum" THEN {<<"enum", 0>>} ELSE {})
    ELSE IF e.ret = "struct" THEN {<<"struct", 0>>, <<"bitmask", 0>>} ELSE {}

\* the events a writer records, the body of a signature at its first use
RECURSIVE EncEvents(_, _)
EncEvents(events, defined) ==
    IF events = <<>> THEN <<>>
    ELSE (IF Head(events).ev = "ENTER" THEN EncEnter(Head(events), defined)
          ELSE EncLeave(Head(events), defined))
             \o EncEvents(Tail(events), defined \cup Defines(Head(events)))

\* a well-formed chunk holding data
Chunk(data) ==
    [clen |-> Len(data) + 2, hdr_ok |-> TRUE, dlen |-> Len(data), body_ok |-> TRUE,
     data |-> data]

\* a chunk whose Snappy header is rejected
BadHeaderChunk == [clen |-> 3, hdr_ok |-> FALSE, dlen |-> 0, body_ok |-> FALSE, data |-> <<>>]

\* version 6, min reader version 6, no properties
PlainHeader == <<6, 6, 0>>

MaxEvents == 4

MaxCut == 2

\* what a trace writer records at an ENTER
EnterEvents ==
    {[ev |-> "ENTER", tid |-> 1, fid |-> 0, number |-> 0, arg |-> "none", ret |-> "none"],
     [ev |-> "ENTER", tid |-> 2, fid |-> 1, number |-> 0, arg |-> "enum", ret |-> "none"]}

\* what a trace writer records at a LEAVE
LeaveEvents ==
    {[ev |-> "LEAVE", tid |-> 0, fid |-> 0, number |-> 0, arg |-> "none", ret |-> "none"],
     [ev |-> "LEAVE", tid |-> 0, fid |-> 0, number |-> 1, arg |-> "none", ret |-> "none"],
     [ev |-> "LEAVE", tid |-> 0, fid |-> 0, number |-> 0, arg |-> "none", ret |-> "struct"]}

Events == EnterEvents \cup LeaveEvents

RECURSIVE SeqsUpTo(_, _)
SeqsUpTo(S, n) ==
    IF n = 0 THEN {<<>>}
    ELSE LET shorter == SeqsUpTo(S, n - 1)
         IN  shorter \cup {Append(s, x) : s \in {t \in shorter : Len(t) = n - 1}, x \in S}

\* the stream without its last cut bytes
CutTail(stream, cut) == SubSeq(stream, 1, Len(stream) - Min(cut, Len(stream)))

\* the ways the stream is framed: one chunk; the header and the events in a
\* chunk each; the same with a chunk Snappy rejects between the two
Layouts == {"one", "two", "bad"}

Framed(header, events, layout) ==
    IF layout = "one" THEN <<Chunk(header \o events)>>
    ELSE IF layout = "two" THEN <<Chunk(header), Chunk(events)>>
    ELSE <<Chunk(header), BadHeaderChunk, Chunk(events)>>

InitReader(file) ==
    /\ snappy_file = file
    /\ file_idx = 0
    /\ cache = <<>>
    /\ cache_cap = 0
    /\ cache_pos = 0
    /\ chunk_offset = 0
    /\ version = 0
    /\ api = "ApiUnknown"
    /\ properties = <<>>
    /\ call_number = 0
    /\ call_list = <<>>
    /\ functions = <<>>
    /\ enums = <<>>
    /\ structs = <<>>
    /\ bitmasks = <<>>
    /\ pc = "start"
    /\ result = [op |-> "none", err |-> "Ok", val |-> None]
    /\ consumed = 0
    /\ log = <<>>
    /\ emitted = <<>>
    /\ retracer = RetracerInit
    /\ REGION_MAP = RegionMapInit

Init ==
    \E events \in SeqsUpTo(Events, MaxEvents), cut \in 0..MaxCut, layout \in Layouts :
        InitReader([magic |-> Magic,
                    chunks |-> Framed(PlainHeader, CutTail(EncEvents(events, {}), cut), layout)])

Spec == Init /\ [][Next]_vars

-----------------------------------------------------------------------------
(* The byte source and the primitive decoders used on their own: a caller  *)
(* opens a file of arbitrary chunks and runs read_bytes, read_varint,      *)
(* read_signed_varint and read_string on it, or the parser's operations.   *)

\* the caller after a SnappyFile operation returned r
SourceDone(op, r) ==
    /\ Becomes(r.self)
    /\ result' = Returned(op, r)
    /\ pc' = IF r.err = "Panic" THEN "aborted" ELSE "source"
    /\ UNCHANGED emitted

\* SnappyFile::new(path)
SourceOpen ==
    /\ pc = "start"
    /\ Becomes(Self)
    /\ result' = Returned("open", SnappyFileNew(Self))
    /\ pc' = IF SnappyFileNew(Self).err = "Ok" THEN "source"
             ELSE IF SnappyFileNew(Self).err = "Panic" THEN "aborted" ELSE "failed"
    /\ UNCHANGED emitted

MaxRead == 3

\* read_bytes(&mut buf) with a buffer of 1..MaxRead bytes
ReadBytesStep ==
    /\ pc = "source"
    /\ \E len \in 1..MaxRead : SourceDone("read_bytes", ReadBytes(Self, len))

\* read_varint()
ReadVarintStep ==
    /\ pc = "source"
    /\ SourceDone("read_varint", ReadVarint(Self))

\* read_signed_varint()
ReadSignedVarintStep ==
    /\ pc = "source"
    /\ SourceDone("read_signed_varint", ReadSignedVarint(Self))

\* read_string()
ReadStringStep ==
    /\ pc = "source"
    /\ SourceDone("read_string", ReadString(Self))

SourceNext ==
    \/ SourceOpen
    \/ ReadBytesStep
    \/ ReadVarintStep
    \/ ReadSignedVarintStep
    \/ ReadStringStep
    \/ New
    \/ Properties
    \/ NextCall

\* a chunk Snappy rejects after it has written the first byte of its output
BadBodyChunk ==
    [clen |-> 5, hdr_ok |-> TRUE, dlen |-> 3, body_ok |-> FALSE, data |-> <<9>>]

\* a chunk of length 0
EmptyChunk == [clen |-> 0, hdr_ok |-> TRUE, dlen |-> 0, body_ok |-> TRUE, data |-> <<>>]

\* an ENTER on thread 1 of function 0, defined here, up to its details
EnterHead == <<EventEnter>> \o EncVarint(1) \o EncVarint(0) \o EncFunctionBody(0)

\* streams that hold a tag the reader does not know (254 is no event, no call
\* detail and no value type), or one it reserves
UnknownTagPayloads ==
    {PlainHeader \o <<254>>,                               \* as an event
     PlainHeader \o EnterHead \o <<254>>,                  \* as a call detail
     PlainHeader \o EnterHead \o EncArg(0, <<254>>),       \* as a value type
     PlainHeader \o EnterHead \o EncArg(0, <<TypeRepr>>),
     PlainHeader \o EnterHead \o EncArg(0, <<TypeWstring>>)}

\* what the chunks of a file decompress to
SourcePayloads ==
    {<<6, 6, 0>>,                                 \* version 6, min 6, no property
     <<7, 6>>,                                    \* version 7
     <<5, 6>>,                                    \* version 5, min 6
     <<2, 104, 105, 0>>,                          \* "hi", then a length of 0
     <<2, 195, 40>>,                              \* two bytes that are not UTF-8
     <<3, 5, 4, 5, 9>>,                           \* Sint 5, Uint 5, the Enum tag
     <<6, 6, 2, 104, 105, 1, 104, 0>>,            \* the property hi = h
     <<6, 6, 2, 104, 105, 2, 195, 40>>}           \* a property value that is not UTF-8
        \cup UnknownTagPayloads

SourceChunks == {Chunk(p) : p \in SourcePayloads} \cup {BadHeaderChunk, BadBodyChunk, EmptyChunk}

MaxChunks == 2

\* the first bytes of a file: the magic, a wrong one, or a file that ends early
SourceMagics == {Magic, <<97, 117>>, <<97>>, <<>>}

SourceFiles ==
    {[magic |-> Magic, chunks |-> cs] : cs \in SeqsUpTo(SourceChunks, MaxChunks)}
        \cup {[magic |-> mg, chunks |-> <<>>] : mg \in SourceMagics}

SourceInit == \E file \in SourceFiles : InitReader(file)

SpecSource == SourceInit /\ [][SourceNext]_vars

-----------------------------------------------------------------------------
(* read_varint on its own, at the full width of a usize *)

\* read_varint(), the value kept as its 7-bit groups
WideVarintStep ==
    /\ pc = "source"
    /\ SourceDone("read_varint", ReadVarintWide(Self))

VarintNext == SourceOpen \/ WideVarintStep

MaxRun == 10

\* a file of one chunk: a run of bytes with the continuation bit, then no byte
\* or a byte without it
VarintPayloads ==
    {run \o last : run \in SeqsUpTo({128, 255}, MaxRun),
                   last \in {<<>>, <<0>>, <<1>>, <<127>>}}

VarintInit ==
    \E p \in VarintPayloads :
        InitReader([magic |-> Magic, chunks |-> <<Chunk(p)>>])

SpecVarint == VarintInit /\ [][VarintNext]_vars

-----------------------------------------------------------------------------
(* The property list on its own: a header, pairs of strings, and what may  *)
(* follow them.                                                            *)

MaxPairs == 2

\* the (key, value) pairs a writer records: keys a and b, values empty, x, y
PropertyPairs == {<<k, v>> : k \in {<<97>>, <<98>>}, v \in {<<>>, <<120>>, <<121>>}}

RECURSIVE EncPairs(_)
EncPairs(pairs) ==
    IF pairs = <<>> THEN <<>>
    ELSE EncString(Head(pairs)[1]) \o EncString(Head(pairs)[2]) \o EncPairs(Tail(pairs))

\* what follows the pairs: the terminator, the terminator and an event, the
\* end of the file, a key without a value, a key cut off, a value cut off
PropertyTails ==
    {<<0>>, <<0>> \o EnterHead \o <<CallEnd>>, <<>>, <<1, 99>>, <<2, 99>>, <<1, 99, 2, 120>>}

PropsStream(pairs, tail) == <<TRACE_VERSION, TRACE_VERSION>> \o EncPairs(pairs) \o tail

PropsInit ==
    \E pairs \in SeqsUpTo(PropertyPairs, MaxPairs), tail \in PropertyTails :
        InitReader([magic |-> Magic, chunks |-> <<Chunk(PropsStream(pairs, tail))>>])

PropsNext == New \/ Properties \/ NextCall

SpecProps == PropsInit /\ [][PropsNext]_vars


-----------------------------------------------------------------------------
(* parse_value on an integer, on its own *)

\* parse_value(), in a build with or without overflow checks
ParseValueWideStep ==
    /\ pc = "source"
    /\ \E overflow_checks \in BOOLEAN :
           SourceDone("parse_value", ParseValueWide(Self, overflow_checks))

WideValueNext == SourceOpen \/ ParseValueWideStep

\* the varints of 2^31 and of 2^35 + 2^31
MinPayloads == {<<128, 128, 128, 128, 8>>, <<128, 128, 128, 128, 136, 1>>}

\* a file of one chunk: the tag of a signed or unsigned integer, or of Null,
\* and a varint
WideValuePayloads ==
    {<<t>> \o p : t \in {TypeSint, TypeUint, TypeNull}, p \in VarintPayloads \cup MinPayloads}

WideValueInit ==
    \E p \in WideValuePayloads : InitReader([magic |-> Magic, chunks |-> <<Chunk(p)>>])

SpecWideValue == WideValueInit /\ [][WideValueNext]_vars

-----------------------------------------------------------------------------
(* parse_value on its own, on the values a writer records *)

\* parse_value()
ParseValueStep ==
    /\ pc = "source"
    /\ SourceDone("parse_value", ParseValue(Self))

ValueNext == SourceOpen \/ ParseValueStep

MaxElems == 2

Recorded(k, n, s, vs) == [k |-> k, n |-> n, s |-> s, vs |-> vs]

Leaf(k, n, s) == Recorded(k, n, s, <<>>)

ArrayRecorded(vs) == Recorded("array", 0, <<>>, vs)

StructRecorded(vs) == Recorded("struct", 0, <<>>, vs)

\* values without parts
Leaves ==
    {Leaf("null", 0, <<>>), Leaf("true", 0, <<>>), Leaf("false", 0, <<>>),
     Leaf("sint", 5, <<>>), Leaf("uint", 300, <<>>), Leaf("string", 0, <<104, 105>>)}

\* the values arrays and structs are built from at the second level
Parts ==
    {Leaf("null", 0, <<>>), Leaf("string", 0, <<104, 105>>),
     ArrayRecorded(<<>>),
     ArrayRecorded(<<Leaf("sint", 5, <<>>), Leaf("true", 0, <<>>)>>),
     StructRecorded(<<Leaf("null", 0, <<>>), Leaf("uint", 300, <<>>)>>),
     StructRecorded(<<Leaf("string", 0, <<104, 105>>),
                      ArrayRecorded(<<Leaf("uint", 300, <<>>)>>)>>)}

\* the values a writer records: leaves, arrays of up to MaxElems values, and
\* values of the struct s with the members m and n
RecordedValues ==
    Leaves
        \cup {ArrayRecorded(vs) : vs \in SeqsUpTo(Leaves, MaxElems)}
        \cup {ArrayRecorded(vs) : vs \in SeqsUpTo(Parts, MaxElems)}
        \cup {StructRecorded(<<m, n>>) : m \in Parts, n \in Leaves}

StructMembers == <<<<109>>, <<110>>>>

RECURSIVE HasStruct(_)
HasStruct(v) ==
    \/ v.k = "struct"
    \/ v.k = "array" /\ \E i \in DOMAIN v.vs : HasStruct(v.vs[i])

RECURSIVE EncValue(_, _)
RECURSIVE EncValues(_, _)

\* the values one after the other; the struct signature is written once
EncValues(vs, defined) ==
    IF vs = <<>> THEN <<>>
    ELSE EncValue(Head(vs), defined) \o EncValues(Tail(vs), defined \/ HasStruct(Head(vs)))

\* a value as a writer records it
EncValue(v, defined) ==
    CASE v.k = "null" -> <<TypeNull>>
      [] v.k = "true" -> <<TypeTrue>>
      [] v.k = "false" -> <<TypeFalse>>
      [] v.k = "sint" -> <<TypeSint>> \o EncVarint(v.n)
      [] v.k = "uint" -> <<TypeUint>> \o EncVarint(v.n)
      [] v.k = "string" -> <<TypeString>> \o EncString(v.s)
      [] v.k = "array" -> <<TypeArray>> \o EncVarint(Len(v.vs)) \o EncValues(v.vs, defined)
      [] v.k = "struct" ->
             <<TypeStruct>> \o EncVarint(0)
                 \o (IF defined THEN <<>>
                     ELSE EncString(<<115>>) \o EncVarint(Len(StructMembers))
                              \o EncStrings(StructMembers))
                 \o EncValues(v.vs, TRUE)

ValueInit ==
    \E v \in RecordedValues :
        InitReader([magic |-> Magic, chunks |-> <<Chunk(EncValue(v, FALSE))>>])

SpecValue == ValueInit /\ [][ValueNext]_vars

-----------------------------------------------------------------------------
(* One call with the details a writer records at its ENTER and its LEAVE *)

MaxDetails == 2

Detail(k, index, v, n) == [k |-> k, index |-> index, v |-> v, n |-> n]

\* an argument at an index, a return value, a flags word, a backtrace of n
\* frames
DetailRecords ==
    {Detail("arg", i, v, 0) : i \in 0..2, v \in {Leaf("uint", 300, <<>>), Leaf("null", 0, <<>>)}}
        \cup {Detail("ret", 0, Leaf("uint", 300, <<>>), 0)}
        \cup {Detail("flags", 0, Leaf("null", 0, <<>>), n) : n \in {1, 2, 129}}
        \cup {Detail("backtrace", 0, Leaf("null", 0, <<>>), n) : n \in 0..1}

\* what a writer records at the LEAVE
LeaveDetails ==
    {<<>>, <<Detail("arg", 1, Leaf("string", 0, <<104, 105>>), 0)>>,
     <<Detail("ret", 0, Leaf("uint", 300, <<>>), 0)>>,
     <<Detail("flags", 0, Leaf("null", 0, <<>>), 1)>>}

\* a backtrace of n frames: the count, and for each frame its id, the function
\* m, the line 7 and BACKTRACE_END
RECURSIVE EncFrames(_, _)
EncFrames(id, n) ==
    IF n = 0 THEN <<>>
    ELSE EncVarint(id) \o <<2>> \o EncString(<<109>>) \o <<4>> \o EncVarint(7) \o <<0>>
             \o EncFrames(id + 1, n - 1)

EncDetail(d) ==
    CASE d.k = "arg" -> EncArg(d.index, EncValue(d.v, FALSE))
      [] d.k = "ret" -> EncRet(EncValue(d.v, FALSE))
      [] d.k = "flags" -> <<CallFlags>> \o EncVarint(d.n)
      [] d.k = "backtrace" -> <<CallBacktrace>> \o EncVarint(d.n) \o EncFrames(0, d.n)

RECURSIVE EncDetails(_)
EncDetails(ds) == IF ds = <<>> THEN <<>> ELSE EncDetail(Head(ds)) \o EncDetails(Tail(ds))

\* the header, the ENTER of call 0 of function fid on thread 1, its LEAVE
DetailsStream(fid, enter, leave) ==
    PlainHeader
        \o <<EventEnter>> \o EncVarint(1) \o EncVarint(fid) \o EncFunctionBody(fid)
        \o EncDetails(enter) \o <<CallEnd>>
        \o <<EventLeave>> \o EncVarint(0) \o EncDetails(leave) \o <<CallEnd>>

\* the file carries, next to its bytes, what the writer recorded in it
DetailsInit ==
    \E fid \in {0, 2}, enter \in SeqsUpTo(DetailRecords, MaxDetails), leave \in LeaveDetails :
        InitReader([magic |-> Magic,
                    chunks |-> <<Chunk(DetailsStream(fid, enter, leave))>>,
                    recorded |-> [fid |-> fid, enter |-> enter, leave |-> leave]])

DetailsNext == New \/ Properties \/ NextCall

SpecDetails == DetailsInit /\ [][DetailsNext]_vars

-----------------------------------------------------------------------------
(* One call of a function of any name: the names of CALL_FLAG_TABLE and a  *)
(* few others                                                              *)

\* glClear, glEnd, glDrawArrays, glBindFramebuffer, glGetFloatv, glFoo, eglFoo,
\* f, IDXGISwapChain::Present, IFoo
OtherNames ==
    {<<103, 108, 67, 108, 101, 97, 114>>,
     <<103, 108, 69, 110, 100>>,
     <<103, 108, 68, 114, 97, 119, 65, 114, 114, 97, 121, 115>>,
     <<103, 108, 66, 105, 110, 100, 70, 114, 97, 109, 101, 98, 117, 102, 102, 101, 114>>,
     <<103, 108, 71, 101, 116, 70, 108, 111, 97, 116, 118>>,
     <<103, 108, 70, 111, 111>>,
     <<101, 103, 108, 70, 111, 111>>,
     <<102>>,
     <<73, 68, 88, 71, 73, 83, 119, 97, 112, 67, 104, 97, 105, 110, 58, 58, 80, 114, 101, 115, 101, 110, 116>>,
     <<73, 70, 111, 111>>}

ClassifyNames == {CALL_FLAG_TABLE[i][1] : i \in 1..TableLen} \cup OtherNames

\* the header, an ENTER on thread 0 of the new function 0 with the argument
\* name mask and the argument UInt 16384, its LEAVE, and with again a second
\* ENTER and LEAVE of the function
ClassifyStream(name, again) ==
    PlainHeader
        \o <<EventEnter>> \o EncVarint(0) \o EncVarint(0)
        \o EncString(name) \o EncVarint(1) \o EncString(<<109, 97, 115, 107>>)
        \o EncArg(0, <<TypeUint>> \o EncVarint(16384)) \o <<CallEnd>>
        \o <<EventLeave>> \o EncVarint(0) \o <<CallEnd>>
        \o (IF again
            THEN <<EventEnter>> \o EncVarint(0) \o EncVarint(0) \o <<CallEnd>>
                     \o <<EventLeave>> \o EncVarint(1) \o <<CallEnd>>
            ELSE <<>>)

ClassifyInit ==
    \E name \in ClassifyNames, again \in BOOLEAN :
        InitReader([magic |-> Magic,
                    chunks |-> <<Chunk(ClassifyStream(name, again))>>,
                    recorded |-> [name |-> name, again |-> again]])

ClassifyNext == New \/ Properties \/ NextCall

SpecClassify == ClassifyInit /\ [][ClassifyNext]_vars

-----------------------------------------------------------------------------
(* Two calls of one function: the first with or without a CALL_FLAGS word  *)
(* and a LEAVE, the second in a chunk of its own, with or without a chunk  *)
(* the decoder rejects in between                                          *)

\* the flags words a writer records: none (0 stands for no CALL_FLAGS), 1, 2
FlagsWords == 0..2

FirstCall(fid, word, leave) ==
    <<EventEnter>> \o EncVarint(1) \o EncVarint(fid) \o EncFunctionBody(fid)
        \o (IF word = 0 THEN <<>> ELSE <<CallFlags>> \o EncVarint(word))
        \o <<CallEnd>>
        \o (IF leave THEN <<EventLeave>> \o EncVarint(0) \o <<CallEnd>> ELSE <<>>)

SecondCall(fid, leave) ==
    <<EventEnter>> \o EncVarint(1) \o EncVarint(fid) \o <<CallEnd>>
        \o (IF leave THEN <<EventLeave>> \o EncVarint(1) \o <<CallEnd>> ELSE <<>>)

FlagsChunks(r) ==
    <<Chunk(PlainHeader \o FirstCall(r.fid, r.word, r.leave1))>>
        \o (IF r.bad THEN <<BadHeaderChunk>> ELSE <<>>)
        \o <<Chunk(SecondCall(r.fid, r.leave2))>>

FlagsInit ==
    \E r \in [fid : {0, 2}, word : FlagsWords, leave1 : BOOLEAN, bad : BOOLEAN,
              leave2 : BOOLEAN] :
        InitReader([magic |-> Magic, chunks |-> FlagsChunks(r), recorded |-> r])

FlagsNext == New \/ Properties \/ NextCall

SpecFlags == FlagsInit /\ [][FlagsNext]_vars

-----------------------------------------------------------------------------
(* One call of a function whose name starts with g or I: the names of      *)
(* CALL_FLAG_TABLE, their neighbours in the order of the table, and the    *)
(* least and the greatest such names                                       *)

TableNamesGI == {CALL_FLAG_TABLE[i][1] : i \in {j \in 1..TableLen : CALL_FLAG_TABLE[j][1][1] \in {103, 73}}}

\* g, g~, I, I~
EdgeNames == {<<103>>, <<103, 126>>, <<73>>, <<73, 126>>}

LookupNames ==
    TableNamesGI
        \cup {Append(n, 48) : n \in TableNamesGI}
        \cup {SubSeq(n, 1, Len(n) - 1) : n \in TableNamesGI}
        \cup EdgeNames

LookupInit ==
    \E name \in LookupNames :
        InitReader([magic |-> Magic,
                    chunks |-> <<Chunk(ClassifyStream(name, FALSE))>>,
                    recorded |-> [name |-> name, again |-> FALSE]])

LookupNext == New \/ Properties \/ NextCall

SpecLookup == LookupInit /\ [][LookupNext]_vars

-----------------------------------------------------------------------------
(* A retracer on its own: callbacks are registered and calls of the        *)
(* functions of FunctionDefs are retraced, in any order.  The history log  *)
(* holds one entry per operation.                                          *)

\* the variables of the reader stay as they are
ReaderUnchanged ==
    UNCHANGED <<snappy_file, file_idx, cache, cache_cap, cache_pos, chunk_offset,
                version, api, properties, call_number, call_list, functions, enums,
                structs, bitmasks, consumed, emitted>>

MaxOps == 4

Callbacks == {"retrace_a", "retrace_b"}

\* a call of each function: the parser gives an id one name
RetraceCalls ==
    {[sig |-> [id |-> i - 1, name |-> FunctionDefs[i].name]] : i \in 1..Len(FunctionDefs)}

RetracerEntry(ev, id, name, callback, err) ==
    [ev |-> ev, id |-> id, name |-> name, callback |-> callback, err |-> err]

\* add_calback(Entry { name, callback })
Register ==
    /\ pc # "aborted"
    /\ Len(log) < MaxOps
    /\ \E call \in RetraceCalls, callback \in Callbacks :
           /\ retracer' = AddCalback(retracer, [name |-> call.sig.name, callback |-> callback])
           /\ log' = Append(log, RetracerEntry("ADD", call.sig.id, call.sig.name,
                                               Some(callback), "Ok"))
    /\ result' = [op |-> "add_calback", err |-> "Ok", val |-> None]
    /\ UNCHANGED <<pc, REGION_MAP>>
    /\ ReaderUnchanged

\* the caller after retrace(call) returned r
RetraceDone(call, r) ==
    /\ retracer' = r.self
    /\ log' = Append(log, RetracerEntry("RETRACE", call.sig.id, call.sig.name, r.val, r.err))
    /\ result' = Returned("retrace", r)
    /\ pc' = IF r.err = "Panic" THEN "aborted" ELSE pc

RetraceCall ==
    /\ pc # "aborted"
    /\ Len(log) < MaxOps
    /\ \E call \in RetraceCalls : RetraceDone(call, Retrace(retracer, call))
    /\ UNCHANGED REGION_MAP
    /\ ReaderUnchanged

RetraceInit == InitReader([magic |-> Magic, chunks |-> <<>>])

RetraceNext == Register \/ RetraceCall

SpecRetrace == RetraceInit /\ [][RetraceNext]_vars

-----------------------------------------------------------------------------
(* The region map on its own: regions are added and removed, and addresses *)
(* are looked up, in any order.  result.val holds the address and what the *)
(* operation gave.                                                         *)

Addresses == 0..3

Buffers == {100, 200}

Sizes == 0..2

\* the caller after a region operation on address returned r
RegionDone(op, address, r) ==
    /\ REGION_MAP' = r.self
    /\ result' = [op |-> op, err |-> r.err, val |-> [address |-> address, out |-> r.val]]
    /\ pc' = IF r.err = "Panic" THEN "aborted" ELSE pc
    /\ UNCHANGED <<retracer, log>>
    /\ ReaderUnchanged

RegionAdd ==
    /\ pc # "aborted"
    /\ \E address \in Addresses, buffer \in Buffers, size \in Sizes :
           RegionDone("add_region", address, AddRegion(REGION_MAP, address, buffer, size))

RegionDel ==
    /\ pc # "aborted"
    /\ \E address \in Addresses :
           RegionDone("del_region", address, DelRegion(REGION_MAP, address))

RegionDelByPointer ==
    /\ pc # "aborted"
    /\ \E ptr \in Buffers :
           RegionDone("del_region_by_pointer", ptr, DelRegionByPointer(REGION_MAP, ptr))

RegionSetPitch ==
    /\ pc # "aborted"
    /\ \E address \in Addresses :
           RegionDone("set_region_pitch", address, SetRegionPitch(REGION_MAP, address, 2, 8, 16))

RegionLookupKey ==
    /\ pc # "aborted"
    /\ \E address \in Addresses :
           RegionDone("lookup_region_key", address, LookupRegionKey(REGION_MAP, address))

RegionLookupAddress ==
    /\ pc # "aborted"
    /\ \E address \in Addresses :
           RegionDone("lookup_address", address, LookupAddress(REGION_MAP, address))

RegionInit == InitReader([magic |-> Magic, chunks |-> <<>>])

RegionNext ==
    \/ RegionAdd
    \/ RegionDel
    \/ RegionDelByPointer
    \/ RegionSetPitch
    \/ RegionLookupKey
    \/ RegionLookupAddress

SpecRegion == RegionInit /\ [][RegionNext]_vars


-----------------------------------------------------------------------------
(* Properties of the call assembler and of the signature dictionaries *)

\* the call carries the INCOMPLETE bit
Incomplete(call) == (UnwrapOr(call.sig.flag, 0) \div CallFlagIncomplete) % 2 = 1

\* no byte is left in the cache and no chunk is left in the file
StreamEnded == file_idx = Len(snappy_file.chunks) /\ cache_pos >= Len(cache)

\* the numbers of the calls returned so far, and of the calls in the list
EmittedNumbers == {emitted[k].call.number : k \in DOMAIN emitted}

ListNumbers == {call_list[k].number : k \in DOMAIN call_list}

\* the history entries of the ENTERs that were given the number n
EntersOf(n) == {i \in DOMAIN log : log[i].ev = "ENTER" /\ log[i].number = n}

\* the event at position i of the history made parse_call return a call with
\* the number the event names
ReturnedAt(i) ==
    \E k \in DOMAIN emitted :
        emitted[k].at = i /\ emitted[k].call.number = log[i].number

\* C1: when a LEAVE names a call that is in the open-calls list, wherever the
\* call sits in the list, parse_call returns that call at the LEAVE, with the
\* thread_id of its ENTER, and the calls come out in the order of their LEAVEs
\* (a LEAVE whose details are cut off or fail to decode is left aside).
C1_LeaveOrder ==
    /\ \A i \in DOMAIN log :
          (log[i].ev = "LEAVE" /\ log[i].found /\ (log[i].ended \/ log[i].err = "Panic"))
              => /\ ReturnedAt(i)
                 /\ \A j \in EntersOf(log[i].number) :
                        \A k \in DOMAIN emitted :
                            emitted[k].at = i => emitted[k].call.thread_id = log[j].thread_id
    /\ \A k, l \in DOMAIN emitted : k < l => emitted[k].at < emitted[l].at

\* C2: every call returned without the INCOMPLETE flag was returned by a LEAVE
\* that names its number, exactly one ENTER was given that number, and that
\* ENTER precedes the LEAVE.
C2_ReturnedHasEnter ==
    \A k \in DOMAIN emitted :
        ~Incomplete(emitted[k].call)
            => /\ log[emitted[k].at].ev = "LEAVE"
               /\ log[emitted[k].at].number = emitted[k].call.number
               /\ Cardinality(EntersOf(emitted[k].call.number)) = 1
               /\ \A i \in EntersOf(emitted[k].call.number) : i < emitted[k].at

\* a call that is the second ENTER's was returned complete
C2_Witness ==
    \E k \in DOMAIN emitted :
        /\ ~Incomplete(emitted[k].call)
        /\ emitted[k].call.number = 1
        /\ Cardinality({i \in DOMAIN log : log[i].ev = "ENTER"}) = 2

\* C3: at the end of the stream each parse_call returns the oldest call of the
\* open-calls list, with INCOMPLETE set and otherwise as it was, and removes it;
\* when the list is empty it returns NoCallAvailable; the stream stays at its end.
C3_DrainAtEnd ==
    [][(pc = "ready" /\ StreamEnded)
          => /\ StreamEnded'
             /\ IF call_list # <<>>
                THEN /\ result'.err = "Ok"
                     /\ Incomplete(Unwrap(result'.val))
                     /\ [Unwrap(result'.val) EXCEPT !.sig.flag = Head(call_list).sig.flag]
                            = Head(call_list)
                     /\ (UnwrapOr(Unwrap(result'.val).sig.flag, 0)
                            - UnwrapOr(Head(call_list).sig.flag, 0)) \in {0, CallFlagIncomplete}
                     /\ call_list' = Tail(call_list)
                     /\ Len(emitted') = Len(emitted) + 1
                     /\ emitted'[Len(emitted')].call = Unwrap(result'.val)
                ELSE /\ result'.err = "NoCallAvailable"
                     /\ emitted' = emitted]_vars

\* two calls were drained, the older first, and then NoCallAvailable was returned
C3_Witness ==
    /\ result.err = "NoCallAvailable"
    /\ StreamEnded
    /\ Len(emitted) = 2
    /\ Incomplete(emitted[1].call) /\ emitted[1].call.number = 0
    /\ Incomplete(emitted[2].call) /\ emitted[2].call.number = 1
    /\ log[emitted[1].at].ev = "END" /\ log[emitted[2].at].ev = "END"

\* C4: the ENTERs are numbered in the order they are read: each gets a number
\* greater than every earlier ENTER's, so no two get the same, and the counter
\* is above them all.
C4_EnterNumbers ==
    /\ \A i, j \in DOMAIN log :
          (i < j /\ log[i].ev = "ENTER" /\ log[j].ev = "ENTER")
              => log[i].number < log[j].number
    /\ \A i \in DOMAIN log : log[i].ev = "ENTER" => log[i].number < call_number

\* three ENTERs were read, one of them after a LEAVE
C4_Witness ==
    \E i, j, k \in DOMAIN log :
        /\ i < j /\ j < k
        /\ log[i].ev = "ENTER" /\ log[j].ev = "LEAVE" /\ log[k].ev = "ENTER"
        /\ Cardinality({e \in DOMAIN log : log[e].ev = "ENTER"}) = 3

\* C5 as stated: the numbers of the calls returned are strictly increasing.
C5_ReturnedIncreasing ==
    \A k, l \in DOMAIN emitted :
        k < l => emitted[k].call.number < emitted[l].call.number

\* C5: the numbers of the calls returned are pairwise different; they decrease
\* only where a LEAVE returned a call before a call entered earlier, and the
\* calls drained at the end come out with increasing numbers.
C5_ReturnedDistinct ==
    \A k, l \in DOMAIN emitted :
        k < l => /\ emitted[k].call.number # emitted[l].call.number
                 /\ emitted[k].call.number > emitted[l].call.number
                        => /\ log[emitted[k].at].ev = "LEAVE"
                           /\ \A i \in EntersOf(emitted[l].call.number) :
                                  \A j \in EntersOf(emitted[k].call.number) : i < j

\* call 1 was returned by its LEAVE, then call 0 by its LEAVE
C5_Witness ==
    /\ Len(emitted) = 2
    /\ emitted[1].call.number = 1 /\ ~Incomplete(emitted[1].call)
    /\ emitted[2].call.number = 0 /\ ~Incomplete(emitted[2].call)

\* C6 as stated: a LEAVE that matches no call of the list, once its details
\* reach CALL_END, makes parse_call return the default Call it was read into.
C6_UnmatchedLeaveReturned ==
    \A i \in DOMAIN log :
        (log[i].ev = "LEAVE" /\ ~log[i].found /\ log[i].ended)
            => \E k \in DOMAIN emitted : emitted[k].at = i

\* C6: a LEAVE that matches no call of the list has its details read into a
\* default Call, which is then dropped: no call is returned for that LEAVE, and
\* every call returned came from the list.
C6_UnmatchedLeaveDropped ==
    /\ \A i \in DOMAIN log :
          (log[i].ev = "LEAVE" /\ ~log[i].found)
              => /\ \A k \in DOMAIN emitted : emitted[k].at # i
                 /\ log[i].call.sig = DefaultSig
                 /\ log[i].call.number = DefaultCall.number
                 /\ log[i].call.thread_id = DefaultCall.thread_id
    /\ \A k \in DOMAIN emitted : EntersOf(emitted[k].call.number) # {}

\* an unmatched LEAVE had a return value read into its default Call up to
\* CALL_END, and the reader went on to read the next event
C6_Witness ==
    \E i \in DOMAIN log :
        /\ log[i].ev = "LEAVE" /\ ~log[i].found /\ log[i].ended
        /\ IsSome(log[i].call.ret)
        /\ i < Len(log)
        /\ log[i + 1].ev = "ENTER"

\* C7 as stated: an ENTER whose details are cut off by the end of the stream is
\* pushed on the list all the same (and drained later), and a LEAVE whose
\* details are cut off returns its call.
C7_CutOffLikeCallEnd ==
    \A i \in DOMAIN log :
        log[i].cut
            => /\ log[i].ev = "ENTER" => log[i].number \in ListNumbers \cup EmittedNumbers
               /\ (log[i].ev = "LEAVE" /\ log[i].found) => ReturnedAt(i)

\* C7: when the details of an event are cut off by the end of the stream, the
\* call is dropped: the call of an ENTER is not pushed on the list and is never
\* returned, the call of a LEAVE has left the list and is not returned.
C7_CutOffDropsCall ==
    \A i \in DOMAIN log :
        log[i].cut
            => /\ log[i].err = "Ok" /\ ~log[i].ended
               /\ log[i].ev = "LEAVE" => \A k \in DOMAIN emitted : emitted[k].at # i
               /\ (log[i].ev = "ENTER" \/ log[i].found)
                      => log[i].number \notin ListNumbers \cup EmittedNumbers

\* the details of an ENTER were cut off after an earlier call was pushed: the
\* earlier call was drained, the cut-off one never came out
C7_Witness ==
    /\ result.err = "NoCallAvailable"
    /\ Len(emitted) = 1
    /\ \E i \in DOMAIN log :
          /\ log[i].ev = "ENTER" /\ log[i].cut
          /\ log[i].number = 1
          /\ log[i].call.args # <<>>

\* C8 as stated: parse_call returns NoCallAvailable only when the stream is at
\* its end and the list is empty, and once it has returned NoCallAvailable
\* every later parse_call returns it too.
C8_NoCallOnlyAtEnd ==
    [][/\ (result'.op = "parse_call" /\ result'.err = "NoCallAvailable")
              => (StreamEnded' /\ call_list' = <<>>)
       /\ (result.op = "parse_call" /\ result.err = "NoCallAvailable")
              => result'.err = "NoCallAvailable"]_vars

\* an entry of a signature table is kept by the step
Kept(table, table_next) ==
    \A id \in DOMAIN table :
        IsSome(table[id]) => (id \in DOMAIN table_next /\ table_next[id] = table[id])

\* the signature a value carries is the entry of its table
Resolves(v) ==
    /\ v.type = "Enum" => enums[v.sig.id + 1] = Some(v.sig)
    /\ v.type = "Bitmask" => bitmasks[v.sig.id + 1] = Some(v.sig)
    /\ v.type = "Struct"
          => /\ structs[v.sig.id + 1] = Some(v.sig)
             /\ \A m \in DOMAIN v.members :
                    v.members[m].type = "Bitmask"
                        => bitmasks[v.members[m].sig.id + 1] = Some(v.members[m].sig)

\* C9: no step changes an entry of the function, enum, struct or bitmask table
\* once it is set; the signature of every ENTER read is the entry of its id,
\* and so is the signature of every value of a call returned.
C9_InternedImmutable ==
    /\ [][/\ Kept(functions, functions')
          /\ Kept(enums, enums')
          /\ Kept(structs, structs')
          /\ Kept(bitmasks, bitmasks')]_vars
    /\ [](\A i \in DOMAIN log :
              log[i].ev = "ENTER" => functions[log[i].sig.id + 1] = Some(log[i].sig))
    /\ [](\A k \in DOMAIN emitted :
              /\ \A a \in DOMAIN emitted[k].call.args : Resolves(emitted[k].call.args[a])
              /\ IsSome(emitted[k].call.ret) => Resolves(Unwrap(emitted[k].call.ret)))

\* the four tables hold an entry each, a function id and an enum id were used a
\* second time, and a call with a struct return value came out
C9_Witness ==
    /\ \E i, j \in DOMAIN log :
          /\ i < j /\ log[i].ev = "ENTER" /\ log[j].ev = "ENTER"
          /\ log[j].cached /\ log[i].sig.id = log[j].sig.id
          /\ log[i].call.args # <<>> /\ log[j].call.args # <<>>
    /\ \E k \in DOMAIN emitted : IsSome(emitted[k].call.ret)
    /\ \E id \in DOMAIN functions : IsSome(functions[id])
    /\ \E id \in DOMAIN enums : IsSome(enums[id])
    /\ \E id \in DOMAIN structs : IsSome(structs[id])
    /\ \E id \in DOMAIN bitmasks : IsSome(bitmasks[id])

\* C10: an ENTER that names a function id already in the table, written
\* without a body, has its signature read from the id varint alone, so that
\* the details start at the next byte; the signature never fails to be read
\* and equals the signature of the first ENTER with that id.  (When the stream
\* ends before the id, the id reads as 0 from no byte and no detail follows.)
C10_CachedEnter ==
    \A j \in DOMAIN log :
        (log[j].ev \in {"ENTER", "SIG"} /\ log[j].cached)
            => /\ log[j].ev = "ENTER"
               /\ log[j].sig_bytes <= Len(EncVarint(log[j].sig.id))
               /\ log[j].ended => log[j].sig_bytes = Len(EncVarint(log[j].sig.id))
               /\ \E i \in DOMAIN log :
                      /\ i < j /\ log[i].ev = "ENTER" /\ ~log[i].cached
                      /\ log[i].sig = log[j].sig
                      /\ log[i].sig_bytes > log[j].sig_bytes

\* a second ENTER of a function was read from its id alone, and its details
\* after it up to CALL_END
C10_Witness ==
    \E j \in DOMAIN log :
        /\ log[j].ev = "ENTER" /\ log[j].cached /\ log[j].ended
        /\ log[j].sig_bytes = 1
        /\ log[j].call.args # <<>>

-----------------------------------------------------------------------------
(* Claims about the byte source and the primitive decoders *)

\* what the chunks k, k + 1, .. of a file decompress to, in file order
RECURSIVE PayloadFrom(_, _)
PayloadFrom(chunks, k) ==
    IF k > Len(chunks) THEN <<>> ELSE chunks[k].data \o PayloadFrom(chunks, k + 1)

Payload == PayloadFrom(snappy_file.chunks, 1)

\* Snappy rejects the chunk: no byte, a malformed header, or a malformed body
SnappyRejects(c) == c.clen = 0 \/ ~c.hdr_ok \/ ~c.body_ok

AllSound == \A k \in DOMAIN snappy_file.chunks : ~SnappyRejects(snappy_file.chunks[k])

\* C11: on a file whose chunks all decompress, the bytes a successful
\* read_bytes delivers are the next bytes of the concatenation of the chunk
\* payloads in file order, also when a later chunk is smaller than an earlier
\* one: nothing is skipped, repeated, or left over from an earlier chunk.
C11_DeliversPayload ==
    [][(AllSound /\ result'.op = "read_bytes" /\ result'.err = "Ok")
           => result'.val = SubSeq(Payload, consumed + 1, consumed')]_vars

\* C12: when the file ends before read_bytes has filled its buffer (the cache
\* holds fewer bytes than asked for and no chunk is left in the file), the read
\* fails with the error kind InsufficientData.
C12_EndOfFileInsufficient ==
    [][(AllSound /\ file_idx = Len(snappy_file.chunks)
            /\ result'.op = "read_bytes" /\ result'.err # "Ok")
           => result'.err = "InsufficientData"]_vars

\* the step loads a chunk that Snappy rejects
LoadsRejected ==
    \E k \in (file_idx + 1)..file_idx' : SnappyRejects(snappy_file.chunks[k])

\* C13: an operation that needs a chunk which Snappy rejects returns
\* DecompressionError; the failure is not turned into a successful result (a
\* varint value, a drained call) or into NoCallAvailable.
C13_RejectedChunkSurfaces ==
    [][LoadsRejected => result'.err = "DecompressionError"]_vars

\* a chunk that Snappy rejects has been loaded
RejectedLoaded == \E k \in 1..file_idx : SnappyRejects(snappy_file.chunks[k])

\* C14: once a chunk has failed to decompress, no later operation delivers
\* bytes: no read succeeds on bytes of the cache or of a later chunk, and no
\* call is decoded from them.
C14_RejectedChunkFatal ==
    [][RejectedLoaded => ~(result'.err = "Ok" /\ consumed' > consumed)]_vars

\* the reader stands behind the header of a one-chunk file whose next event
\* holds an unknown or reserved tag
AtUnknownTag ==
    /\ pc = "ready" /\ consumed = Len(PlainHeader)
    /\ \E p \in UnknownTagPayloads : snappy_file.chunks = <<Chunk(p)>>

\* C15: an unknown or reserved tag (of a value type, Repr and WString
\* included, of a call detail, of an event) is reported to the caller of
\* parse_call as an error value, and the reader does not abort.
C15_UnknownTagIsError ==
    [][AtUnknownTag => (result'.err \notin {"Ok", "Panic"} /\ pc' # "aborted")]_vars

\* each of the unknown and reserved tags has been met by parse_call
C15_Witness ==
    /\ result.op = "parse_call" /\ result.err = "Panic"
    /\ \E p \in UnknownTagPayloads : snappy_file.chunks = <<Chunk(p)>>

\* the longest run of bytes a varint may take
MaxVarintLen == (UsizeBits + 6) \div 7

\* the next n bytes of the stream all have the continuation bit set
ContinuationRun(n) ==
    /\ Len(Payload) >= consumed + n
    /\ \A i \in 1..n : Payload[consumed + i] >= 128

\* C16: read_varint fails with InsufficientData whenever it has consumed 10
\* bytes none of which had its high bit clear; it returns no value for such
\* input and consumes no byte after the tenth.
C16_TenContinuationBytes ==
    [][(result'.op = "read_varint" /\ ContinuationRun(MaxVarintLen))
           => (result'.err = "InsufficientData" /\ consumed' = consumed + MaxVarintLen)]_vars

\* a read_varint has been refused after ten continuation bytes
C16_Witness ==
    /\ result.op = "read_varint" /\ result.err = "InsufficientData"
    /\ consumed = MaxVarintLen
    /\ \A i \in 1..MaxVarintLen : Payload[i] >= 128

\* the 9-byte varint of u64::MAX >> 1
Max63Bytes == Repeat(255, 8) \o <<127>>

\* u64::MAX >> 1 as 7-bit groups: 63 one bits
Max63 == [i \in 1..WideGroups |-> IF 7 * i <= UsizeBits - 1 THEN 127 ELSE 0]

\* the bits byte number i of a varint (from 1) adds to a usize
GroupOf(b, i) == IF 7 * i <= UsizeBits THEN b % 128 ELSE (b % 128) % (2 ^ (UsizeBits - 7 * (i - 1)))

\* the number a sequence of 7-bit groups stands for, lowest group first
RECURSIVE WideValue(_)
WideValue(w) == IF w = <<>> THEN 0 ELSE Head(w) + 128 * WideValue(Tail(w))

\* the stream ends, or a byte without the continuation bit comes, within n bytes
EndsWithin(n) ==
    \/ Len(Payload) < consumed + n
    \/ \E i \in 1..n : Payload[consumed + i] < 128

\* C17 (as written): a 10-byte varint with all continuation bits set is
\* rejected with ProtocolError, and the 9-byte varint of 2^63 - 1 decodes to
\* that value.
C17_OverflowIsProtocolError ==
    [][result'.op = "read_varint" =>
           /\ ContinuationRun(MaxVarintLen) => result'.err = "ProtocolError"
           /\ (consumed = 0 /\ Payload = Max63Bytes)
                  => (result'.err = "Ok" /\ result'.val = Max63)]_vars

\* C17 (amended): a 10-byte varint with all continuation bits set is rejected
\* with InsufficientData; a varint that ends within 10 bytes decodes to the
\* 7-bit groups of its bytes, lowest first, cut to 64 bits; so the 9-byte
\* varint of 2^63 - 1 decodes to exactly that value.
C17_OverflowIsInsufficientData ==
    [][result'.op = "read_varint" =>
           /\ ContinuationRun(MaxVarintLen) => result'.err = "InsufficientData"
           /\ (consumed = 0 /\ Payload = Max63Bytes)
                  => (result'.err = "Ok" /\ result'.val = Max63 /\ consumed' = Len(Max63Bytes))
           /\ result'.err = "Ok"
                  => /\ consumed' - consumed <= MaxVarintLen
                     /\ \A i \in 1..WideGroups :
                            result'.val[i] = IF i <= consumed' - consumed
                                             THEN GroupOf(Payload[consumed + i], i) ELSE 0
           /\ EndsWithin(4)
                  => /\ ReadVarint(Self).err = "Ok"
                     /\ ReadVarint(Self).val = WideValue(result'.val)]_vars

\* the 9-byte varint of 2^63 - 1 has been decoded
C17_Witness ==
    /\ result.op = "read_varint" /\ result.err = "Ok"
    /\ Payload = Max63Bytes /\ consumed = Len(Max63Bytes)
    /\ result.val = Max63

\* the tag byte a read_signed_varint is about to read
SignedTag == ReadU8(Self)

\* the varint behind that tag
SignedMagnitude == ReadVarint(SignedTag.self)

\* C18: read_signed_varint reads one tag byte and returns minus the following
\* varint for the tag TypeSint, plus the following varint for TypeUint, and 0
\* when the stream has ended before the tag; for any other tag it returns an
\* error value.
C18_SignedVarint ==
    [][result'.op = "read_signed_varint" =>
           IF SignedTag.err # "Ok"
           THEN file_idx = Len(snappy_file.chunks) => (result'.err = "Ok" /\ result'.val = 0)
           ELSE IF SignedTag.val \in {TypeSint, TypeUint}
           THEN /\ result'.err = SignedMagnitude.err
                /\ result'.err = "Ok"
                       => result'.val = IF SignedTag.val = TypeSint
                                        THEN 0 - SignedMagnitude.val ELSE SignedMagnitude.val
           ELSE result'.err \notin {"Ok", "Panic"} /\ pc' # "aborted"]_vars

\* a read_signed_varint has met a tag that is neither TypeSint nor TypeUint
C18_Witness ==
    /\ result.op = "read_signed_varint" /\ result.err = "Panic"
    /\ cache_pos > 0 /\ cache[cache_pos] \notin {TypeSint, TypeUint}

\* the length a read_string is about to read
StringLen == ReadVarint(Self)

\* the bytes behind that length
StringBody == ReadBytes(StringLen.self, StringLen.val)

\* C19: read_string reads a varint length N; for N = 0 it fails with
\* InsufficientData and consumes nothing after the length; for N > 0 it
\* consumes the N following bytes and returns them exactly when they are valid
\* UTF-8, failing with ConversionError otherwise (and with the error of the
\* read when the N bytes cannot be read).  Every string the reader returns or
\* keeps, as a property or as a function name, is valid UTF-8.
C19_StringIsUtf8 ==
    /\ [][result'.op = "read_string" =>
              /\ StringLen.err # "Ok" => result'.err = StringLen.err
              /\ (StringLen.err = "Ok" /\ StringLen.val = 0)
                     => /\ result'.err = "InsufficientData"
                        /\ consumed' = StringLen.self.consumed
              /\ (StringLen.err = "Ok" /\ StringLen.val > 0 /\ StringBody.err = "Ok")
                     => /\ consumed' = StringLen.self.consumed + StringLen.val
                        /\ Len(StringBody.val) = StringLen.val
                        /\ IsUtf8(StringBody.val)
                               => (result'.err = "Ok" /\ result'.val = StringBody.val)
                        /\ ~IsUtf8(StringBody.val) => result'.err = "ConversionError"
              /\ (StringLen.err = "Ok" /\ StringLen.val > 0 /\ StringBody.err # "Ok")
                     => result'.err = StringBody.err
              /\ result'.err = "Ok" => IsUtf8(result'.val)]_vars
    /\ [](/\ \A k \in DOMAIN properties : IsUtf8(k) /\ IsUtf8(properties[k])
          /\ \A id \in DOMAIN functions :
                 IsSome(functions[id]) => IsUtf8(Unwrap(functions[id]).name))

\* a read_string has refused two bytes that are not UTF-8
C19_Witness ==
    /\ result.op = "read_string" /\ result.err = "ConversionError"
    /\ cache_pos >= 2 /\ ~IsUtf8(SubSeq(cache, cache_pos - 1, cache_pos))

\* the file holds the two version varints, each of one byte, in sound chunks
HasVersions ==
    /\ AllSound /\ Len(Payload) >= 2
    /\ Payload[1] < 128 /\ Payload[2] < 128

\* the versions the file announces are ones the reader accepts
VersionsAccepted == Payload[1] <= TRACE_VERSION /\ Payload[2] <= Payload[1]

\* C20: Parser::new yields a reader exactly when the file starts with the two
\* bytes "at", the version is at most 6 and the minimal reader version is at
\* most the version; in every other case (wrong magic, file shorter than the
\* magic, version above 6, minimal reader version above the version) it
\* returns an error value and no reader.
C20_OpenExactly ==
    result.op = "new" =>
        /\ (snappy_file.magic = Magic /\ HasVersions /\ VersionsAccepted)
               => (result.err = "Ok" /\ pc = "opened")
        /\ (snappy_file.magic # Magic \/ (HasVersions /\ ~VersionsAccepted))
               => (result.err \notin {"Ok", "Panic"} /\ pc = "failed")

\* Parser::new has been run on a file shorter than the magic
C20_Witness ==
    /\ result.op = "new" /\ result.err = "Panic"
    /\ Len(snappy_file.magic) < Len(Magic)

-----------------------------------------------------------------------------
(* Claims about properties, values and call details *)

\* the map a sequence of pairs stands for: the last value of each key
PairsMap(pairs) ==
    [k \in {pairs[i][1] : i \in DOMAIN pairs} |->
        pairs[CHOOSE i \in DOMAIN pairs :
                  pairs[i][1] = k /\ \A j \in DOMAIN pairs : pairs[j][1] = k => j <= i][2]]

\* the file holds the pairs and then the tail
HoldsProps(pairs, tail) == snappy_file.chunks = <<Chunk(PropsStream(pairs, tail))>>

\* C21: parse_properties returns on every stream (with Ok or an Io error); it
\* reads (key, value) string pairs and stops, without
\* error, at the first key position where a string of length 0 or the end of
\* the file is found; the map then holds exactly the pairs read before the
\* terminator, a later pair replacing an earlier one with the same key, and
\* the stream stands immediately after the terminator.  (A key whose value is
\* cut off by the end of the file is kept with the empty value; a string cut
\* off inside its bytes is an Io error.)
C21_PropertiesTerminate ==
    /\ pc = "opened" => ParseProperties(Self).err \in {"Ok", "Io"}
    /\ result.op = "parse_properties" =>
          \A pairs \in SeqsUpTo(PropertyPairs, MaxPairs), tail \in PropertyTails :
              HoldsProps(pairs, tail) =>
                  IF tail = <<>> \/ Head(tail) = 0
                  THEN /\ result.err = "Ok"
                       /\ properties = PairsMap(pairs)
                       /\ consumed = 2 + Len(EncPairs(pairs)) + Min(Len(tail), 1)
                       /\ cache_pos = consumed
                  ELSE IF tail = <<1, 99>>
                  THEN /\ result.err = "Ok"
                       /\ properties = PairsMap(pairs \o <<<<<<99>>, <<>>>>>>)
                       /\ consumed = Len(PropsStream(pairs, tail))
                  ELSE result.err = "Io"

\* parse_properties has read two pairs with the same key and different values
\* and has stopped at a terminator that an event follows
C21_Witness ==
    /\ result.op = "parse_properties" /\ result.err = "Ok"
    /\ \E pairs \in SeqsUpTo(PropertyPairs, MaxPairs) :
          /\ Len(pairs) = 2 /\ pairs[1][1] = pairs[2][1] /\ pairs[1][2] # pairs[2][2]
          /\ HoldsProps(pairs, <<0>> \o EnterHead \o <<CallEnd>>)
          /\ properties = PairsMap(pairs)
          /\ cache_pos < Len(cache)

\* the stream holds, behind its first byte, a varint of n bytes
VarintOfLen(n) ==
    /\ Len(Payload) >= 1 + n
    /\ Payload[1 + n] < 128
    /\ \A i \in 1..(n - 1) : Payload[1 + i] >= 128

\* the usize that varint stands for
VarintGroups(n) == [i \in 1..WideGroups |-> IF i <= n THEN GroupOf(Payload[1 + i], i) ELSE 0]

\* C22: for every varint V of the unsigned 64-bit range, a value with the tag
\* TypeUint decodes to the unsigned integer V and a value with the tag
\* TypeSint to the signed integer -V, without truncation or wrap-around.
C22_IntegersFullRange ==
    [][(result'.op = "parse_value" /\ consumed = 0 /\ Len(Payload) >= 1
            /\ Payload[1] \in {TypeSint, TypeUint})
           => \A n \in 1..MaxVarintLen :
                  VarintOfLen(n)
                      => /\ result'.err = "Ok"
                         /\ result'.val.value = VarintGroups(n)
                         /\ result'.val.neg = (Payload[1] = TypeSint /\ VarintGroups(n) # WideZero)]_vars

\* an unsigned integer of more than 32 bits has been decoded to another number
C22_Witness ==
    /\ result.op = "parse_value" /\ result.err = "Ok" /\ result.val.type = "U32"
    /\ \E n \in 6..MaxVarintLen :
          /\ VarintOfLen(n) /\ consumed = 1 + n
          /\ result.val.value # VarintGroups(n)

\* the decoded value d is the recorded value v: same variant, same content,
\* the parts of an array or a struct one for one and in the recorded order
RECURSIVE Decodes(_, _)
Decodes(d, v) ==
    CASE v.k = "null" -> d = NoneValue
      [] v.k = "true" -> d = [type |-> "Bool", value |-> TRUE]
      [] v.k = "false" -> d = [type |-> "Bool", value |-> FALSE]
      [] v.k = "sint" -> d = [type |-> "I32", value |-> 0 - v.n]
      [] v.k = "uint" -> d = [type |-> "U32", value |-> v.n]
      [] v.k = "string" -> d = [type |-> "VString", value |-> v.s]
      [] v.k = "array" ->
             /\ d.type = "Array"
             /\ Len(d.values) = Len(v.vs)
             /\ \A i \in DOMAIN v.vs : Decodes(d.values[i], v.vs[i])
      [] v.k = "struct" ->
             /\ d.type = "Struct"
             /\ d.sig.member_names = StructMembers
             /\ Len(d.members) = Len(d.sig.member_names)
             /\ \A i \in DOMAIN v.vs : Decodes(d.members[i], v.vs[i])

HoldsValue(v) == snappy_file.chunks = <<Chunk(EncValue(v, FALSE))>>

\* C23: an Array recorded with a count N decodes to exactly N values in wire
\* order, each decoded with its own variant, nested arrays and structs
\* included, and a Struct decodes to one member value per member name of its
\* signature, in signature order; the decoding ends after the last part
C23_ArrayStructDecode ==
    [][(result'.op = "parse_value" /\ consumed = 0)
          => \A v \in RecordedValues :
                 HoldsValue(v)
                     => /\ result'.err = "Ok"
                        /\ Decodes(result'.val, v)
                        /\ consumed' = Len(EncValue(v, FALSE))]_vars

\* an array of two structs, the second with a nested array, has been decoded
C23_Witness ==
    /\ result.op = "parse_value"
    /\ result.err = "Ok"
    /\ result.val.type = "Array"
    /\ Len(result.val.values) = 2
    /\ result.val.values[1].type = "Struct"
    /\ result.val.values[2].type = "Struct"
    /\ result.val.values[2].members[2].type = "Array"

\* the details the writer recorded for the call, ENTER then LEAVE
RecordedDetails == snappy_file.recorded.enter \o snappy_file.recorded.leave

NoBacktrace == \A i \in DOMAIN RecordedDetails : RecordedDetails[i].k # "backtrace"

ArgRecords(index) ==
    {i \in DOMAIN RecordedDetails :
        RecordedDetails[i].k = "arg" /\ RecordedDetails[i].index = index}

\* the last CALL_ARG record with this index
LastArg(index) ==
    RecordedDetails[CHOOSE i \in ArgRecords(index) : \A j \in ArgRecords(index) : j <= i]

ArgIndices == {RecordedDetails[i].index : i \in {j \in DOMAIN RecordedDetails : RecordedDetails[j].k = "arg"}}

ArgsLen ==
    IF ArgIndices = {} THEN 0
    ELSE 1 + (CHOOSE i \in ArgIndices : \A j \in ArgIndices : j <= i)

\* C24: the call returned for an ENTER and a LEAVE with CALL_ARG, CALL_RET and
\* CALL_FLAGS details has an argument list of length 1 + the largest CALL_ARG
\* index (0 without CALL_ARG), slot i holds the value of the last CALL_ARG
\* with index i, and the slots without a CALL_ARG hold Null
C24_ArgsByIndex ==
    (result.op = "parse_call" /\ NoBacktrace)
        => /\ Len(emitted) = 1
           /\ Len(emitted[1].call.args) = ArgsLen
           /\ \A i \in 0..(ArgsLen - 1) :
                  IF i \in ArgIndices
                  THEN Decodes(emitted[1].call.args[i + 1], LastArg(i).v)
                  ELSE emitted[1].call.args[i + 1] = NoneValue

\* a call was returned whose slot 2 was written twice, the second time with
\* the value 300, whose slot 1 was written at the LEAVE and whose slot 0 was
\* never written
C24_Witness ==
    /\ result.op = "parse_call"
    /\ NoBacktrace
    /\ Len(emitted) = 1
    /\ ArgIndices = {1, 2}
    /\ Cardinality(ArgRecords(2)) = 2
    /\ LastArg(2).v.k = "uint"
    /\ emitted[1].call.args[1] = NoneValue
    /\ emitted[1].call.args[3] = [type |-> "U32", value |-> 300]

\* the flags the classifier gives the recorded function
ClassifiedFlag == LookupCallFlag(FunctionDefs[snappy_file.recorded.fid + 1].name).val

\* a CALL_FLAGS record with the low bit set was recorded
LowBitRecorded ==
    \E i \in DOMAIN RecordedDetails :
        RecordedDetails[i].k = "flags" /\ RecordedDetails[i].n % 2 = 1

\* C25: a CALL_FLAGS detail consumes one varint, so that the details after it
\* are read in step and the call ends at the end of the stream; with the low
\* bit set, the call has the flags of its function with bit 0 set in addition;
\* with the low bit clear in every CALL_FLAGS, it has the flags of its function
C25_FlagsLowBit ==
    (result.op = "parse_call" /\ NoBacktrace)
        => /\ Len(emitted) = 1
           /\ consumed = snappy_file.chunks[1].dlen
           /\ emitted[1].call.sig.flag =
                  IF LowBitRecorded
                  THEN Some((UnwrapOr(ClassifiedFlag, 0) \div 2) * 2 + 1)
                  ELSE ClassifiedFlag

\* a call of glIsList (flags 132) was returned after CALL_FLAGS 129 and a
\* CALL_ARG: its flags are 133
C25_Witness ==
    /\ result.op = "parse_call"
    /\ Len(emitted) = 1
    /\ snappy_file.recorded.fid = 2
    /\ Len(snappy_file.recorded.enter) = 2
    /\ snappy_file.recorded.enter[1].k = "flags"
    /\ snappy_file.recorded.enter[1].n = 129
    /\ snappy_file.recorded.enter[2].k = "arg"
    /\ emitted[1].call.sig.flag = <<133>>
    /\ emitted[1].call.args # <<>>

BacktraceRecorded == \E i \in DOMAIN RecordedDetails : RecordedDetails[i].k = "backtrace"

RetRecorded == \E i \in DOMAIN RecordedDetails : RecordedDetails[i].k = "ret"

\* C26: a CALL_BACKTRACE detail is skipped with its payload: the call
\* returned for details with a backtrace has the arguments, the return value
\* and the flags of the other details
C26_BacktraceSkipped ==
    (result.op = "parse_call" /\ BacktraceRecorded)
        => /\ Len(emitted) = 1
           /\ Len(emitted[1].call.args) = ArgsLen
           /\ \A i \in 0..(ArgsLen - 1) :
                  IF i \in ArgIndices
                  THEN Decodes(emitted[1].call.args[i + 1], LastArg(i).v)
                  ELSE emitted[1].call.args[i + 1] = NoneValue
           /\ IsSome(emitted[1].call.ret) = RetRecorded
           /\ emitted[1].call.sig.flag =
                  IF LowBitRecorded
                  THEN Some((UnwrapOr(ClassifiedFlag, 0) \div 2) * 2 + 1)
                  ELSE ClassifiedFlag

\* parse_call has run on a call recorded with a backtrace of one frame
C26_Witness ==
    /\ result.op = "parse_call"
    /\ \E i \in DOMAIN RecordedDetails :
           RecordedDetails[i].k = "backtrace" /\ RecordedDetails[i].n = 1

\* the name matches one of the patterns of lookup_call_flag
MatchesRule(name) ==
    \/ IsFullMatch(GlReDraw, name) \/ IsFullMatch(GlReMiscDraw, name)
    \/ IsPrefixMatch(GlReFbo, name) \/ IsFullMatch(GlReGet, name)
    \/ IsFullMatch(DxReDraw, name) \/ IsFullMatch(DxReSrt, name)
    \/ IsFullMatch(DxRePresent, name) \/ IsFullMatch(DxReCmql, name)

\* the flags of the table entry with this name, none without such an entry
TableFlag(name) ==
    IF \E i \in 1..TableLen : CALL_FLAG_TABLE[i][1] = name
    THEN Some(CALL_FLAG_TABLE[CHOOSE i \in 1..TableLen : CALL_FLAG_TABLE[i][1] = name][2])
    ELSE None

\* C27: a function whose name matches none of the patterns, whatever its first
\* letter, is classified with the flags of the table entry of that name, and
\* with no flags when the table has no such entry
C27_TableForEveryName ==
    (result.op = "parse_call" /\ ~MatchesRule(snappy_file.recorded.name))
        => /\ Len(emitted) >= 1
           /\ emitted[1].call.sig.name = snappy_file.recorded.name
           /\ emitted[1].call.sig.flag = TableFlag(snappy_file.recorded.name)

\* C27 for the names the code looks up: those that start with g or I
C27_TableForGAndI ==
    (/\ result.op = "parse_call"
     /\ ~MatchesRule(snappy_file.recorded.name)
     /\ snappy_file.recorded.name[1] \in {103, 73})
        => /\ Len(emitted) >= 1
           /\ emitted[1].call.sig.name = snappy_file.recorded.name
           /\ emitted[1].call.sig.flag = TableFlag(snappy_file.recorded.name)

\* a call of eglSwapBuffers was returned
C27_Witness ==
    /\ result.op = "parse_call"
    /\ Len(emitted) >= 1
    /\ emitted[1].call.sig.name = <<101, 103, 108, 83, 119, 97, 112, 66, 117, 102, 102, 101, 114, 115>>

GlClear == <<103, 108, 67, 108, 101, 97, 114>>

\* the trace holds the one call of glClear
HoldsGlClear == snappy_file.recorded = [name |-> GlClear, again |-> FALSE]

\* C28: on the trace of one ENTER (thread 0, new function 0 named glClear with
\* one argument name, CALL_ARG 0 = UInt 16384) and its LEAVE, the first
\* parse_call returns the call number 0 of glClear with the flag RENDER, the
\* thread 0, the arguments [UInt 16384] and no return value
C28_GlClearScenario ==
    (result.op = "parse_call" /\ HoldsGlClear)
        => /\ Len(emitted) = 1
           /\ emitted[1].call.number = 0
           /\ emitted[1].call.sig.name = GlClear
           /\ emitted[1].call.sig.flag = Some(CallFlagRender)
           /\ emitted[1].call.thread_id = 0
           /\ emitted[1].call.args = <<[type |-> "U32", value |-> 16384]>>
           /\ emitted[1].call.ret = None

\* the scenario of C28 with the flags the code gives: none
C28_GlClearUnflagged ==
    (result.op = "parse_call" /\ HoldsGlClear)
        => /\ Len(emitted) = 1
           /\ emitted[1].call.number = 0
           /\ emitted[1].call.sig.name = GlClear
           /\ emitted[1].call.sig.flag = None
           /\ emitted[1].call.thread_id = 0
           /\ emitted[1].call.args = <<[type |-> "U32", value |-> 16384]>>
           /\ emitted[1].call.ret = None

\* the call of glClear was returned
C28_Witness ==
    /\ result.op = "parse_call"
    /\ result.err = "Ok"
    /\ HoldsGlClear
    /\ emitted[1].call.sig.name = GlClear

\* the ENTER at this place of the history interned its function: the body was
\* read and lookup_call_flag was called on the name
Classified(i) == log[i].ev = "ENTER" /\ ~log[i].cached

\* C29: lookup_call_flag is called at most once for a function id, when the id
\* is interned: no two ENTERs intern the same id, and every other ENTER of the
\* id carries the flags found then
C29_ClassifiedOnce ==
    \A i, j \in DOMAIN log :
        (Classified(i) /\ log[j].ev = "ENTER" /\ log[j].sig.id = log[i].sig.id /\ i # j)
            => /\ log[j].cached
               /\ i < j
               /\ log[j].sig.flag = log[i].sig.flag

\* three ENTERs of one function id have been read
C29_Witness ==
    \E i, j, k \in DOMAIN log :
        /\ i < j /\ j < k
        /\ Classified(i) /\ log[j].ev = "ENTER" /\ log[k].ev = "ENTER"
        /\ log[j].sig.id = log[i].sig.id /\ log[k].sig.id = log[i].sig.id

\* C30: the position get_current_offset returns, ordered by chunk_offset and
\* then by the offset in the chunk, never decreases from one operation of the
\* reader to the next, whether the operation stays in a chunk, crosses into
\* the next one, loads a rejected chunk or fails at the end of the file
C30_PositionMonotone ==
    [][~PositionLess(Position(chunk_offset', cache_pos'), Position(chunk_offset, cache_pos))]_vars

\* a read has crossed into the second chunk and a later one has failed at the
\* end of the file: chunk_offset is the length of the file and the offset in
\* the chunk is where the last read stopped
C30_Witness ==
    /\ pc = "source"
    /\ result.err = "Io"
    /\ Len(snappy_file.chunks) = 2
    /\ file_idx = 2
    /\ chunk_offset = ChunkStart(snappy_file.chunks, 2)
    /\ cache_pos > 0
    /\ consumed > cache_pos

-----------------------------------------------------------------------------
(* Properties of the assembler's list of open calls, of termination, of the *)
(* table search, of the retracer and of the region map                      *)

\* the LEAVE at place i of the history returned the call of its ENTER, with
\* the number, thread, signature and arguments of the ENTER and the return
\* value of the LEAVE, and the call is no longer in the list
LeaveReturnsEntered(i) ==
    /\ log[i].number \notin ListNumbers
    /\ \E k \in DOMAIN emitted :
           /\ emitted[k].at = i
           /\ emitted[k].call = log[i].call
           /\ \E j \in EntersOf(log[i].number) :
                  /\ j < i
                  /\ [emitted[k].call EXCEPT !.ret = None] = log[j].call

\* C31: a LEAVE that names a call of the open-calls list, wherever the call
\* sits in the list, removes that call from the list and returns it as it was
\* stored at its ENTER, extended by the details of the LEAVE
C31_LeaveExtendsOpenCall ==
    \A i \in DOMAIN log :
        (log[i].ev = "LEAVE" /\ log[i].found /\ (log[i].ended \/ log[i].err = "Panic"))
            => LeaveReturnsEntered(i)

\* C31 for the LEAVEs the code completes: those that name the last call of the
\* list
C31_LeaveOfLastCall ==
    \A i \in DOMAIN log :
        (log[i].ev = "LEAVE" /\ log[i].found /\ log[i].ended) => LeaveReturnsEntered(i)

\* a LEAVE has named the older of two open calls
C31_Witness ==
    \E i \in DOMAIN log :
        /\ log[i].ev = "LEAVE" /\ log[i].found /\ log[i].number = 0
        /\ Cardinality({j \in 1..(i - 1) : log[j].ev = "ENTER" /\ log[j].ended}) = 2
        /\ \A j \in 1..(i - 1) : log[j].ev = "ENTER"

\* the ENTER at place j of the history ended with CALL_END, and neither a
\* LEAVE has found its call nor has the call been drained
StillOpen(j) ==
    /\ log[j].ev = "ENTER" /\ log[j].ended
    /\ \A i \in DOMAIN log :
           ~(/\ i > j
             /\ log[i].number = log[j].number
             /\ \/ log[i].ev = "LEAVE" /\ log[i].found
                \/ log[i].ev = "END")

\* C32: while the reader runs, the open-calls list holds calls with numbers
\* that increase strictly from front to back and are below the next call
\* number, and it holds exactly the calls of the ENTERs that ended with
\* CALL_END, were not found by a LEAVE and were not drained
C32_OpenCalls ==
    pc # "aborted"
        => /\ \A k, l \in DOMAIN call_list :
                  k < l => call_list[k].number < call_list[l].number
           /\ \A k \in DOMAIN call_list : call_list[k].number < call_number
           /\ \A k \in DOMAIN call_list :
                  \E j \in DOMAIN log : StillOpen(j) /\ log[j].call = call_list[k]
           /\ \A j \in DOMAIN log :
                  StillOpen(j) => \E k \in DOMAIN call_list : call_list[k] = log[j].call

\* call 0 is open after a LEAVE has found no call and another LEAVE has taken
\* call 1 out of the list
C32_Witness ==
    /\ pc = "ready"
    /\ Len(call_list) = 1
    /\ call_list[1].number = 0
    /\ \E i \in DOMAIN log :
           log[i].ev = "LEAVE" /\ log[i].found /\ log[i].ended /\ log[i].number = 1
    /\ \E i \in DOMAIN log : log[i].ev = "LEAVE" /\ ~log[i].found

\* the places at which the call with the number n was returned
ReturnsOf(n) == {k \in DOMAIN emitted : emitted[k].call.number = n}

\* a LEAVE after place j found the call of the ENTER at j and its details did
\* not reach CALL_END
LeaveCutOff(j) ==
    \E i \in DOMAIN log :
        /\ i > j
        /\ log[i].ev = "LEAVE" /\ log[i].found /\ ~log[i].ended
        /\ log[i].number = log[j].number

\* C33 as stated: once parse_call has returned NoCallAvailable, every call
\* whose ENTER ended with CALL_END has been returned exactly once
C33_EveryCallReturnedOnce ==
    result.err = "NoCallAvailable"
        => \A j \in DOMAIN log :
               (log[j].ev = "ENTER" /\ log[j].ended)
                   => Cardinality(ReturnsOf(log[j].number)) = 1

\* C33: once parse_call has returned NoCallAvailable, no call number has been
\* returned twice, and every call whose ENTER ended with CALL_END has been
\* returned, by its LEAVE or by the drain, except the calls whose LEAVE was
\* cut off before CALL_END: those were taken out of the list and dropped
C33_ReturnedOnceUnlessCutOff ==
    result.err = "NoCallAvailable"
        => /\ \A k, l \in DOMAIN emitted :
                  k # l => emitted[k].call.number # emitted[l].call.number
           /\ \A j \in DOMAIN log :
                  (log[j].ev = "ENTER" /\ log[j].ended)
                      => Cardinality(ReturnsOf(log[j].number)) = IF LeaveCutOff(j) THEN 0 ELSE 1

\* NoCallAvailable was returned after one call came out at its LEAVE and
\* another was dropped at a LEAVE that was cut off
C33_Witness ==
    /\ result.err = "NoCallAvailable"
    /\ \E k \in DOMAIN emitted : log[emitted[k].at].ev = "LEAVE"
    /\ \E j \in DOMAIN log : log[j].ev = "ENTER" /\ log[j].ended /\ LeaveCutOff(j)

\* the call was returned by the end-of-stream arm
Drained(k) == log[emitted[k].at].ev = "END"

\* the first call of the trace was recorded with a CALL_FLAGS word whose low
\* bit is set
MarkedByFlags(k) == emitted[k].call.number = 0 /\ snappy_file.recorded.word % 2 = 1

\* C34: the function table entry keeps the flags of the classifier whatever
\* is set on the calls; a call returned has INCOMPLETE set if and only if the
\* drain returned it, bit 0 set if and only if its own CALL_FLAGS set it, and
\* otherwise the flags of the classifier: a later call of the function
\* inherits neither bit
C34_FlagsOnOwnCopy ==
    /\ \A id \in DOMAIN functions :
           IsSome(functions[id]) => Unwrap(functions[id]).flag = ClassifiedFlag
    /\ \A k \in DOMAIN emitted :
           /\ Incomplete(emitted[k].call) <=> Drained(k)
           /\ emitted[k].call.sig.flag =
                  IF Drained(k) \/ MarkedByFlags(k)
                  THEN Some(UnwrapOr(ClassifiedFlag, 0)
                                + (IF Drained(k) THEN CallFlagIncomplete ELSE 0)
                                + (IF MarkedByFlags(k) THEN CallFlagFake ELSE 0))
                  ELSE ClassifiedFlag

\* the first call of glIsList was drained with INCOMPLETE and bit 0 (flags
\* 197), and the second call of glIsList was returned by its LEAVE with the
\* flags 132
C34_Witness ==
    /\ Len(emitted) = 2
    /\ emitted[1].call.number = 0
    /\ emitted[1].call.sig.flag = <<197>>
    /\ Drained(1)
    /\ emitted[2].call.number = 1
    /\ emitted[2].call.sig.flag = <<132>>
    /\ log[emitted[2].at].ev = "LEAVE"

\* the entries of the four signature tables
InternedSigs ==
    {Unwrap(functions[id]) : id \in {x \in DOMAIN functions : IsSome(functions[x])}}
        \cup {Unwrap(enums[id]) : id \in {x \in DOMAIN enums : IsSome(enums[x])}}
        \cup {Unwrap(structs[id]) : id \in {x \in DOMAIN structs : IsSome(structs[x])}}
        \cup {Unwrap(bitmasks[id]) : id \in {x \in DOMAIN bitmasks : IsSome(bitmasks[x])}}

\* C35: the position of the reader is never below the position stored with an
\* entry of the function, enum, struct or bitmask table, and at no sighting of
\* an id already in a table is the body read again: the bytes after the id
\* belong to the record that follows
C35_NeverSkips ==
    /\ \A sig \in InternedSigs :
           ~PositionLess(Position(chunk_offset, cache_pos), Unwrap(sig.state))
    /\ \A i \in DOMAIN log : log[i].ev # "SKIP"

\* a function id, an enum id, a struct id and a bitmask id were each sighted a
\* second time: two calls with the enum argument and two with the struct
\* return value were read to CALL_END
C35_Witness ==
    /\ \E i, j \in DOMAIN log :
           /\ i < j
           /\ log[i].ev = "ENTER" /\ log[i].ended /\ log[i].call.args # <<>>
           /\ log[j].ev = "ENTER" /\ log[j].ended /\ log[j].call.args # <<>>
    /\ \E i, j \in DOMAIN log :
           /\ i < j
           /\ log[i].ev = "LEAVE" /\ log[i].ended /\ IsSome(log[i].call.ret)
           /\ log[j].ev = "LEAVE" /\ log[j].ended /\ IsSome(log[j].call.ret)

\* the reader has moved on: a chunk was taken from the file, or bytes were
\* taken from the cache, or a call was taken from the open-calls list
MovedOn ==
    \/ file_idx' > file_idx
    \/ file_idx' = file_idx /\ cache_pos' > cache_pos
    \/ file_idx' = file_idx /\ cache_pos' = cache_pos /\ Len(call_list') < Len(call_list)

\* C36: every parse_call returns (a call, NoCallAvailable or another error)
\* and, unless it returns NoCallAvailable, has moved on in the finite stream
\* or shortened the list, so that a caller who keeps calling receives
\* NoCallAvailable
C36_NextCallReturns ==
    [][pc = "ready" => (pc' = "ready" /\ (result'.err = "NoCallAvailable" \/ MovedOn))]_vars

\* C36 for the calls of parse_call that do not panic
C36_ReturnsOrPanics ==
    [][(pc = "ready" /\ pc' = "ready") => (result'.err = "NoCallAvailable" \/ MovedOn)]_vars

\* parse_call has panicked at the LEAVE of the older of two open calls
C36_Witness ==
    /\ pc = "aborted"
    /\ result.op = "parse_call"
    /\ Len(log) = 3
    /\ log[1].ev = "ENTER" /\ log[1].ended
    /\ log[2].ev = "ENTER" /\ log[2].ended
    /\ log[3].ev = "LEAVE" /\ log[3].found /\ log[3].number = 0

\* the name reaches the table search of lookup_call_flag
ReachesTable(name) == name[1] \in {103, 73} /\ ~MatchesRule(name)

\* C37: for a name that starts with g or I and matches no pattern the search
\* of the table ends without an index outside the table and without a tail
\* below 0, with the flags of the entry of that name, and with no flags when
\* the table has no such entry; the call is returned with these flags
C37_TableSearchInBounds ==
    (result.op = "parse_call" /\ ReachesTable(snappy_file.recorded.name))
        => /\ LookupCallFlag(snappy_file.recorded.name)
                  = [err |-> "Ok", val |-> TableFlag(snappy_file.recorded.name)]
           /\ pc = "ready"
           /\ Len(emitted) >= 1
           /\ emitted[1].call.sig.flag = TableFlag(snappy_file.recorded.name)

\* a call of the name g, below every g entry of the table, or of the name I~,
\* above every I entry, was returned with no flags
C37_Witness ==
    /\ result.op = "parse_call"
    /\ Len(emitted) >= 1
    /\ emitted[1].call.sig.name \in {<<103>>, <<73, 126>>}
    /\ ReachesTable(emitted[1].call.sig.name)
    /\ emitted[1].call.sig.flag = None

\* the callback registered under name before the operation n of the history
RECURSIVE RegisteredAt(_, _)
RegisteredAt(n, name) ==
    IF n <= 1 THEN None
    ELSE IF log[n - 1].ev = "ADD" /\ log[n - 1].name = name THEN log[n - 1].callback
    ELSE RegisteredAt(n - 1, name)

\* the earlier retrace calls of the id that invoked a callback
Dispatched(n, id) ==
    {j \in 1..(n - 1) : log[j].ev = "RETRACE" /\ log[j].id = id /\ IsSome(log[j].callback)}

\* every retrace call has invoked the callback then registered under the name
\* of the call and returned Ok, or invoked nothing and returned NoCallback
\* when none was registered; no index was out of range; and an entry of the
\* cache is the callback registered under the name of its id
RetraceDispatches ==
    /\ \A n \in 1..Len(log) :
           log[n].ev = "RETRACE"
               => /\ log[n].err # "Panic"
                  /\ log[n].callback = RegisteredAt(n, log[n].name)
                  /\ log[n].err = IF IsSome(log[n].callback) THEN "Ok" ELSE "NoCallback"
    /\ \A i \in 1..Len(retracer.callbacks) :
           IsSome(retracer.callbacks[i])
               => retracer.callbacks[i] = MapGet(retracer.map, FunctionDefs[i].name)

\* the callbacks were registered before the first retrace call
RegistrationsFirst ==
    \A i \in 1..Len(log), j \in 1..Len(log) :
        (log[i].ev = "RETRACE" /\ log[j].ev = "ADD") => j < i

\* C38: for any sequence of retrace calls after the registrations, retrace
\* invokes exactly the callback registered under call.sig.name and returns Ok,
\* or invokes nothing and returns NoCallback when none is registered; the
\* cache is grown to cover the id before it is indexed; and an entry of the
\* cache is the callback registered under the name of its id
C38_RetraceDispatches == RegistrationsFirst => RetraceDispatches

\* C38 for every order of registrations and retrace calls: retrace invokes
\* the callback that was registered under the name when a call of the id
\* first found one, and an entry of the cache is that callback
C38_DispatchesFirstFound ==
    /\ \A n \in 1..Len(log) :
           log[n].ev = "RETRACE"
               => /\ log[n].err # "Panic"
                  /\ log[n].callback =
                         IF Dispatched(n, log[n].id) = {}
                         THEN RegisteredAt(n, log[n].name)
                         ELSE log[CHOOSE j \in Dispatched(n, log[n].id) :
                                      \A k \in Dispatched(n, log[n].id) : j <= k].callback
                  /\ log[n].err = IF IsSome(log[n].callback) THEN "Ok" ELSE "NoCallback"
    /\ \A i \in 1..Len(retracer.callbacks) :
           IsSome(retracer.callbacks[i])
               => /\ Dispatched(Len(log) + 1, i - 1) # {}
                  /\ \A j \in Dispatched(Len(log) + 1, i - 1) :
                         log[j].callback = retracer.callbacks[i]

\* retrace_a was registered for function 1; a call of function 1 grew the
\* cache and invoked it, a second call invoked the cached callback, and a call
\* of function 0 returned NoCallback
C38_Witness ==
    /\ Len(log) = 4
    /\ log[1].ev = "ADD" /\ log[1].id = 1 /\ log[1].callback = Some("retrace_a")
    /\ log[2].ev = "RETRACE" /\ log[2].id = 1 /\ log[2].callback = Some("retrace_a")
    /\ log[3].ev = "RETRACE" /\ log[3].id = 1 /\ log[3].callback = Some("retrace_a")
    /\ log[4].ev = "RETRACE" /\ log[4].id = 0 /\ log[4].err = "NoCallback"
    /\ retracer.callbacks = <<None, Some("retrace_a")>>

\* the address lies in a region of the map
InRegion(address) == IsSome(KeyOf(REGION_MAP.map, address))

\* the region of the map that holds the address, and its key
RegionAt(address) == REGION_MAP.map[Unwrap(KeyOf(REGION_MAP.map, address))]

\* C39: lookup_address and set_region_pitch, which call lookup_region_key
\* while they hold the map, complete without a borrow conflict; lookup_address
\* of an address in a region [base, base + size) gives ptr = buffer +
\* (address - base) and len = size - (address - base), and of an address in no
\* region gives ptr = address and len = 0
C39_NoSecondBorrow ==
    /\ result.op = "lookup_address"
           => /\ result.err = "Ok"
              /\ IF InRegion(result.val.address)
                 THEN /\ result.val.out.ptr =
                             RegionAt(result.val.address).buffer
                                 + (result.val.address - Unwrap(KeyOf(REGION_MAP.map, result.val.address)))
                      /\ result.val.out.len =
                             RegionAt(result.val.address).size
                                 - (result.val.address - Unwrap(KeyOf(REGION_MAP.map, result.val.address)))
                 ELSE result.val.out.ptr = result.val.address /\ result.val.out.len = 0
    /\ (result.op = "set_region_pitch" /\ InRegion(result.val.address))
           => result.err = "Ok"

\* what the code does: every lookup_address and every set_region_pitch panics,
\* and lookup_region_key called on its own returns the greatest key whose
\* region holds the address
C39_SecondBorrowPanics ==
    /\ result.op \in {"lookup_address", "set_region_pitch"} => result.err = "Panic"
    /\ result.op = "lookup_region_key"
           => /\ result.err = "Ok"
              /\ result.val.out = KeyOf(REGION_MAP.map, result.val.address)

\* lookup_address of the address 3 of the region [2, 4) has panicked
C39_Witness ==
    /\ result.op = "lookup_address"
    /\ result.val.address = 3
    /\ result.err = "Panic"
    /\ pc = "aborted"
    /\ 2 \in DOMAIN REGION_MAP.map
    /\ REGION_MAP.map[2].size = 2
    /\ KeyOf(REGION_MAP.map, 3) = Some(2)
====
